---- MODULE Spec2Model ----
(***************************************************************************)
(* Verification model of the Fern repository.                              *)
(*                                                                         *)
(*  - the layout scanner of editor/tree-sitter-fern/src/scanner.c          *)
(*    (indent stack, scan, serialize, deserialize) driven through the      *)
(*    TSLexer interface it uses (lookahead, advance, eof, mark_end);       *)
(*  - the compiler driver of src/main.c (main, read_file, get_basename,    *)
(*    compile_to_qbe, the three commands and run_qbe_and_link);            *)
(*  - the packed Result and Option words of runtime/fern_runtime.c.        *)
(*                                                                         *)
(* Characters are modelled by one-letter strings:                          *)
(*   "s" = ' '   "t" = '\t'   "n" = '\n'   "r" = '\r'   "h" = '#'          *)
(*   "x" = any other character.                                            *)
(* The input is read as a stream: `consumed' is the part of the current    *)
(* line that lies before the lexer position, `rest' the unread input that  *)
(* has been supplied so far, `closed' tells that no more input follows.    *)
(***************************************************************************)
EXTENDS Integers, Sequences, FiniteSets, TLC

VARIABLES
    indent_stack,    \* Scanner.indent_stack: the slots written so far
                     \* (slot i of the C array is indent_stack[i + 1]; the
                     \* slots beyond are still zero from calloc)
    indent_stack_size, \* Scanner.indent_stack_size
    consumed,        \* characters of the current line before the position
    rest,            \* unread input supplied so far
    closed,          \* TRUE when the input ends after `rest'
    nfed,            \* number of lines supplied so far
    valid_symbols,   \* valid_symbols of the last scan call (set of tokens)
    result_symbol,   \* token of the last scan call, "NONE" if it returned false
    buffer,          \* serialization buffer (bytes written by serialize)
    saved,           \* TRUE between a serialize and the matching deserialize
    pc,              \* driver: the statement of main.c to execute next
    argc,            \* driver: argc of main
    command,         \* driver: argv[1]
    args,            \* driver: argv[2], argv[3], ...
    filename,        \* driver: the variable filename of main (argv[2])
    readable,        \* driver: the files named in argv that fopen can open
    arena,           \* driver: "none", "live" or "destroyed"
    arena_destroys,  \* driver: number of calls of arena_destroy
    fopens,          \* driver: number of handles fopen has returned
    fcloses,         \* driver: number of calls of fclose
    source,          \* driver: value returned by read_file
    parser_calls,    \* driver: number of runs of parser_new/parse_stmts
    checker_calls,   \* driver: number of runs of checker_check_stmts
    parse_error,     \* driver: parser_had_error(parser)
    stmts_len,       \* driver: stmts->len (-1 = stmts is NULL)
    check_ok,        \* driver: value returned by checker_check_stmts
    checker_errors,  \* driver: checker_has_errors(checker)
    emitter_calls,   \* driver: number of runs of codegen_new/codegen_program
    cg,              \* driver: value returned by compile_to_qbe
    output_file,     \* driver: output_file of cmd_build
    files,           \* driver: files the run has written and not removed
    steps,           \* driver: external steps performed, in order
    output,          \* driver: lines printed, in order
    failures,        \* driver: failures the environment has reported
    result,          \* driver: value returned by the command
    exit_code,       \* driver: value returned by main (-1 = still running)
    rt_value,        \* runtime: the payload the program holds
    rt_made,         \* runtime: the constructor that has made rt_word
    rt_word,         \* runtime: the packed Result or Option word
    rt_call,         \* runtime: the function called last
    rt_fn,           \* runtime: the fn argument of that call
    rt_default,      \* runtime: the default_val argument of that call
    rt_ret,          \* runtime: the value that call has returned
    fn_args,         \* runtime: the arguments fn was called with in that call
    heap,            \* lists: the FernList objects allocated so far
    list_call,       \* lists: the list function called last
    aborted,         \* lists: TRUE when an assertion has aborted the process
    lexer,           \* lexer: the Lexer object
    snapshot,        \* lexer: the LexerState saved last (<<>> = none)
    lexer_at_save,   \* lexer: the Lexer object as it was at that save
    lexer_call,      \* lexer: the lexer function called last and its token
    should_exit,     \* REPL: Repl.should_exit
    checker_errs,    \* REPL: number of errors in the checker's error list
    repl_pc,         \* REPL: "new", "run" (in repl_run) or "ended"
    repl_call,       \* REPL: the call made last and what it left
    emitter,         \* emitter: the Codegen object
    emit_call        \* emitter: the call made last and the number of calls

scannerVars == <<indent_stack, indent_stack_size, consumed, rest, closed,
                 nfed, valid_symbols, result_symbol, buffer, saved>>
driverVars  == <<pc, argc, command, args, filename, readable, arena,
                 arena_destroys, fopens, fcloses, source, parser_calls,
                 checker_calls, parse_error, stmts_len, check_ok,
                 checker_errors, emitter_calls, cg, output_file, files, steps,
                 output, failures, result, exit_code>>
runtimeVars == <<rt_value, rt_made, rt_word, rt_call, rt_fn, rt_default,
                 rt_ret, fn_args>>
listVars == <<heap, list_call, aborted>>
lexerVars == <<lexer, snapshot, lexer_at_save, lexer_call>>
replVars == <<should_exit, checker_errs, repl_pc, repl_call>>
codegenVars == <<emitter, emit_call>>
vars == <<indent_stack, indent_stack_size, consumed, rest, closed, nfed,
          valid_symbols, result_symbol, buffer, saved, pc, argc, command,
          args, filename, readable, arena, arena_destroys, fopens, fcloses,
          source, parser_calls, checker_calls, parse_error, stmts_len,
          check_ok, checker_errors, emitter_calls, cg, output_file, files,
          steps, output, failures, result, exit_code, rt_value, rt_made,
          rt_word, rt_call, rt_fn, rt_default, rt_ret, fn_args, heap,
          list_call, aborted, lexer, snapshot, lexer_at_save, lexer_call,
          should_exit, checker_errs, repl_pc, repl_call, emitter, emit_call>>

(***************************************************************************)
(* Bounds of the model.                                                    *)
(***************************************************************************)
\* number of input lines supplied in the general scanner specification
MaxLines == 3
\* number of input lines supplied in the deep-nesting specification
MaxDeepLines == 258
\* number of lists allocated in the list specification
MaxLists == 3
\* number of characters of a source in the lexer specification
MaxSrc == 4
\* number of calls made on one emitter in the emitter specification
MaxEmits == 2

(***************************************************************************)
(* Program constants.                                                      *)
(***************************************************************************)
MAX_INDENT_STACK == 256
\* width of uint16_t
UINT16 == 65536

TokenType == {"NEWLINE", "INDENT", "DEDENT"}

(***************************************************************************)
(* TSLexer as used by the scanner.  A lexer state is a record              *)
(* [consumed, rest]; lookahead at the end of input is "eof" (0 in C).      *)
(***************************************************************************)
lookahead(L) == IF L.rest = <<>> THEN "eof" ELSE Head(L.rest)

eof(L) == L.rest = <<>>

advance(L) ==
    IF L.rest = <<>> THEN L
    ELSE [consumed |-> IF Head(L.rest) = "n" THEN <<>>
                       ELSE Append(L.consumed, Head(L.rest)),
          rest |-> Tail(L.rest)]

\* a tab counted like a space
indent_step_flat(ch) == 1

\* the columns one character of indentation counts for (lines 91-95)
indent_step(ch) == IF ch = "t" THEN 4 ELSE 1

\* the characters the loop of count_indent advances over (line 90)
indent_run(r) ==
    LET stops == {i \in 1..Len(r) : r[i] \notin {"s", "t"}}
        n == IF stops = {} THEN Len(r)
             ELSE (CHOOSE i \in stops : \A j \in stops : i <= j) - 1
    IN SubSeq(r, 1, n)

\* the columns added for the characters run[lo..hi]
RECURSIVE indent_sum(_, _, _)
indent_sum(run, lo, hi) ==
    IF lo > hi THEN 0
    ELSE IF lo = hi THEN indent_step(run[lo])
    ELSE LET mid == (lo + hi) \div 2
         IN indent_sum(run, lo, mid) + indent_sum(run, mid + 1, hi)

\* count_indent: advances over spaces and tabs, adding 4 for a tab and 1
\* for a space to a uint16_t (lines 87-100)
count_indent(L) ==
    LET run == indent_run(L.rest)
    IN [indent |-> indent_sum(run, 1, Len(run)) % UINT16,
        lex |-> [consumed |-> L.consumed \o run,
                 rest |-> SubSeq(L.rest, Len(run) + 1, Len(L.rest))]]

\* the loop `while (lookahead is \n or \r) { advance; indent = count_indent }'
RECURSIVE skip_blank_lines(_)
skip_blank_lines(c) ==
    IF lookahead(c.lex) \in {"n", "r"}
    THEN skip_blank_lines(count_indent(advance(c.lex)))
    ELSE c

(***************************************************************************)
(* tree_sitter_fern_external_scanner_scan.  The result is a record         *)
(* [ret, sym, stack, lex]: the returned boolean, lexer->result_symbol,     *)
(* the indent stack and the lexer state when the function returns.         *)
(***************************************************************************)
ScanFalse(stack, size, L) ==
    [ret |-> FALSE, sym |-> "NONE", stack |-> stack, size |-> size,
     lex |-> L]

\* lines 178-194
ScanNewline(stack, size, L, valid) ==
    IF "NEWLINE" \in valid /\ lookahead(L) \in {"n", "r"}
    THEN LET L1 == advance(L)
             L2 == IF lookahead(L1) = "n" THEN advance(L1) ELSE L1
         IN [ret |-> TRUE, sym |-> "NEWLINE", stack |-> stack,
             size |-> size, lex |-> L2]
    ELSE ScanFalse(stack, size, L)

\* the guard of the push, off by one
StackFullLate(size) == size > MAX_INDENT_STACK

\* the guard of the push, line 168
StackFull(size) == size >= MAX_INDENT_STACK

\* indent_stack[i] = val for the C index i
store(stack, i, val) ==
    IF i < Len(stack) THEN [stack EXCEPT ![i + 1] = val]
    ELSE Append(stack, val)

\* the test that also takes an equal width for an increase
increased_or_equal(indent, current_indent) == indent >= current_indent

\* the test `indentation increased' of the INDENT part (line 167)
increased(indent, current_indent) == indent > current_indent

\* lines 148-176
ScanIndent(stack, size, L, valid) ==
    IF "INDENT" \in valid
    THEN LET c == skip_blank_lines(count_indent(L))
             current_indent == stack[size]
         IN IF lookahead(c.lex) = "h" THEN ScanFalse(stack, size, c.lex)
            ELSE IF increased(c.indent, current_indent)
                 THEN IF StackFull(size) THEN ScanFalse(stack, size, c.lex)
                      ELSE [ret |-> TRUE, sym |-> "INDENT",
                            stack |-> store(stack, size, c.indent),
                            size |-> size + 1, lex |-> c.lex]
                 ELSE ScanNewline(stack, size, c.lex, valid)
    ELSE ScanNewline(stack, size, L, valid)

\* the decrement forgotten
pop_forgotten(size) == size

\* a decrement by two where two entries can go
pop_two(size) == IF size > 2 THEN size - 2 ELSE size - 1

\* indent_stack_size-- (lines 128 and 141)
pop(size) == size - 1

\* the test without the comment character
blank_only(la) == la \in {"n", "r"}

\* the test `skip blank lines and comments' of the DEDENT part (lines 134-135)
blank_or_comment(la) == la \in {"n", "r", "h"}

\* the test `indentation decreased' of the DEDENT part (line 140)
decreased(indent, current_indent) == indent < current_indent

\* lines 117-146, falling through to the rest of the function
scan(stack, size, L, valid) ==
    IF "DEDENT" \in valid /\ size > 1
    THEN LET current_indent == stack[size]
             c == count_indent(L)
         IN IF eof(c.lex)
            THEN [ret |-> TRUE, sym |-> "DEDENT", stack |-> stack,
                  size |-> pop(size), lex |-> c.lex]
            ELSE IF blank_or_comment(lookahead(c.lex))
            THEN ScanFalse(stack, size, c.lex)
            ELSE IF decreased(c.indent, current_indent)
            THEN [ret |-> TRUE, sym |-> "DEDENT", stack |-> stack,
                  size |-> pop(size), lex |-> c.lex]
            ELSE ScanIndent(stack, size, c.lex, valid)
    ELSE ScanIndent(stack, size, L, valid)

(***************************************************************************)
(* serialize / deserialize: the live entries are copied as bytes (memcpy   *)
(* of uint16_t values, low byte first).                                    *)
(***************************************************************************)
\* the bytes of a sequence of uint16_t values
ToBytes(entries) ==
    [k \in 1..(2 * Len(entries)) |->
        IF k % 2 = 1 THEN entries[(k + 1) \div 2] % 256
        ELSE entries[k \div 2] \div 256]

\* the guard of serialize, line 53
SerializeRefuses(size) == size >= MAX_INDENT_STACK

\* the bytes written to the buffer; their number is the value returned
serialize(stack, size) ==
    IF SerializeRefuses(size) THEN <<>>
    ELSE ToBytes(SubSeq(stack, 1, size))

\* the uint16_t at C index i of the buffer
WordAt(buf, i) == buf[2 * i + 1] + 256 * buf[2 * i + 2]

\* the scanner [stack, size] after deserialize(buffer, length)
deserialize(stack, size, buf) ==
    IF Len(buf) = 0
    THEN [stack |-> store(stack, 0, 0), size |-> 1]
    ELSE LET n == Len(buf) \div 2
         IN [stack |-> [i \in 1..(IF n > Len(stack) THEN n ELSE Len(stack))
                          |-> IF i <= n THEN WordAt(buf, i - 1)
                              ELSE stack[i]],
             size |-> n]

(***************************************************************************)
(* Input supplied to the lexer.                                            *)
(***************************************************************************)
\* leading whitespace of the supplied lines: widths 0, 1, 5
WsSet == {<<>>, <<"s">>, <<"s", "t">>}
\* a statement, a comment, or nothing (blank line)
BodySet == {<<"x">>, <<"h", "x">>, <<>>}
\* line terminator; <<>> is the end of the input
TermSet == {<<"n">>, <<>>}

\* the scanner never reads beyond the first character that is neither
\* white space nor a line terminator
HasAnchor(r) == \E i \in 1..Len(r) : r[i] \in {"x", "h"}

Spaces(n) == [i \in 1..n |-> "s"]

(***************************************************************************)
(* Scanner actions.                                                        *)
(***************************************************************************)
ScannerInit ==
    /\ indent_stack = <<0>>          \* create, lines 34-39
    /\ indent_stack_size = 1
    /\ consumed = <<>>
    /\ rest = <<>>
    /\ closed = FALSE
    /\ nfed = 0
    /\ valid_symbols = {}
    /\ result_symbol = "NONE"
    /\ buffer = <<>>
    /\ saved = FALSE

\* the input callback supplies one more line
Feed ==
    /\ ~closed /\ ~saved /\ ~HasAnchor(rest) /\ nfed < MaxLines
    /\ \E ws \in WsSet, body \in BodySet, term \in TermSet :
          /\ rest' = rest \o ws \o body \o term
          /\ closed' = (term = <<>>)
    /\ nfed' = nfed + 1
    /\ valid_symbols' = {} /\ result_symbol' = "NONE"
    /\ UNCHANGED <<indent_stack, indent_stack_size, consumed, buffer, saved>>

\* the n-th line of the deep input has n spaces and one statement
FeedDeeper ==
    /\ ~closed /\ ~saved /\ ~HasAnchor(rest) /\ nfed < MaxDeepLines
    /\ rest' = rest \o Spaces(nfed + 1) \o <<"x", "n">>
    /\ nfed' = nfed + 1
    /\ valid_symbols' = {} /\ result_symbol' = "NONE"
    /\ UNCHANGED <<indent_stack, indent_stack_size, consumed, closed, buffer, saved>>

\* one call of the scan function; a call that returns false leaves the
\* lexer where it was (the caller resets it)
Scan(valid) ==
    /\ ~saved /\ (closed \/ HasAnchor(rest))
    /\ LET r == scan(indent_stack, indent_stack_size,
                     [consumed |-> consumed, rest |-> rest], valid)
       IN /\ indent_stack' = r.stack
          /\ indent_stack_size' = r.size
          /\ result_symbol' = r.sym
          /\ consumed' = IF r.ret THEN r.lex.consumed ELSE consumed
          /\ rest' = IF r.ret THEN r.lex.rest ELSE rest
    /\ valid_symbols' = valid
    /\ UNCHANGED <<closed, nfed, buffer, saved>>

ScanAny == \E valid \in SUBSET TokenType : Scan(valid)

\* in the deep input every line opens a block: DEDENT is never expected
ScanDeep == \E valid \in SUBSET {"NEWLINE", "INDENT"} : Scan(valid)

\* the grammar's own lexer consumes one character of a token
LexToken ==
    /\ ~saved /\ rest # <<>> /\ Head(rest) \in {"x", "h"}
    /\ consumed' = Append(consumed, Head(rest))
    /\ rest' = Tail(rest)
    /\ valid_symbols' = {} /\ result_symbol' = "NONE"
    /\ UNCHANGED <<indent_stack, indent_stack_size, closed, nfed, buffer, saved>>

\* the grammar's own lexer skips one character of white space
LexExtra ==
    /\ ~saved /\ rest # <<>> /\ Head(rest) \in {"s", "t", "n", "r"}
    /\ LET L == advance([consumed |-> consumed, rest |-> rest])
       IN consumed' = L.consumed /\ rest' = L.rest
    /\ valid_symbols' = {} /\ result_symbol' = "NONE"
    /\ UNCHANGED <<indent_stack, indent_stack_size, closed, nfed, buffer, saved>>

Serialize ==
    /\ ~saved
    /\ buffer' = serialize(indent_stack, indent_stack_size)
    /\ saved' = TRUE
    /\ UNCHANGED <<indent_stack, indent_stack_size, consumed, rest, closed, nfed, valid_symbols,
                   result_symbol>>

Deserialize ==
    /\ saved
    /\ LET d == deserialize(indent_stack, indent_stack_size, buffer)
       IN indent_stack' = d.stack /\ indent_stack_size' = d.size
    /\ buffer' = <<>>
    /\ saved' = FALSE
    /\ UNCHANGED <<consumed, rest, closed, nfed, valid_symbols,
                   result_symbol>>

\* deserialize called with length 0 (no state stored yet)
DeserializeEmpty ==
    /\ ~saved
    /\ LET d == deserialize(indent_stack, indent_stack_size, <<>>)
       IN indent_stack' = d.stack /\ indent_stack_size' = d.size
    /\ UNCHANGED <<consumed, rest, closed, nfed, valid_symbols,
                   result_symbol, buffer, saved>>

(***************************************************************************)
(* Driver (src/main.c).  The parser, the checker, the emitter, the file    *)
(* system and the external tools are the environment: each of their        *)
(* results is chosen when the call is made.  File names are sequences of   *)
(* one-letter strings.                                                     *)
(***************************************************************************)
Commands == {"build", "check", "emit", "other"}

\* dir/a.f, a.b.f and d.e\a
SourcePaths == {<<"d", "/", "a", ".", "f">>,
                <<"a", ".", "b", ".", "f">>,
                <<"d", ".", "e", "\\", "a">>}

DashO == <<"-", "o">>

OutPath == <<"o", "u", "t">>

\* the command lines: argv[1] (the command, "none" when argc = 1) and
\* argv[2..]
Invocations ==
    {[command |-> "none", args |-> <<>>]}
      \cup {[command |-> c, args |-> <<>>] : c \in Commands}
      \cup {[command |-> c, args |-> <<p>>] : c \in Commands, p \in SourcePaths}
      \cup {[command |-> "build",
             args |-> <<DashO, OutPath, <<"d", "/", "a", ".", "f">>>>]}

\* one line printed on stdout or stderr
msg(text, arg) == [text |-> text, arg |-> arg]

DriverFresh ==
    /\ argc = 0
    /\ command = "none"
    /\ args = <<>>
    /\ filename = <<>>
    /\ readable = {}
    /\ arena = "none"
    /\ arena_destroys = 0
    /\ fopens = 0
    /\ fcloses = 0
    /\ source = "NULL"
    /\ parser_calls = 0
    /\ checker_calls = 0
    /\ parse_error = FALSE
    /\ stmts_len = 0
    /\ check_ok = FALSE
    /\ checker_errors = FALSE
    /\ emitter_calls = 0
    /\ cg = "NULL"
    /\ output_file = <<>>
    /\ files = {}
    /\ steps = <<>>
    /\ output = <<>>
    /\ failures = {}
    /\ result = -1
    /\ exit_code = -1

\* the driver does not run in the scanner specifications
DriverIdle == pc = "idle" /\ DriverFresh

DriverInit == pc = "main" /\ DriverFresh

\* main, lines 320-326; the files that exist when the driver starts are
\* chosen here
MainArgs ==
    /\ pc = "main"
    /\ \E inv \in Invocations :
          LET n == IF inv.command = "none" THEN 1 ELSE 2 + Len(inv.args)
              named == {inv.args[i] : i \in {1, Len(inv.args)}
                                                  \cap DOMAIN inv.args}
          IN /\ argc' = n
             /\ command' = inv.command
             /\ args' = inv.args
             /\ readable' \in SUBSET named
             /\ IF n < 3
                THEN /\ output' = Append(output, msg("usage", <<>>))
                     /\ exit_code' = 1
                     /\ pc' = "exit"
                     /\ UNCHANGED filename
                ELSE /\ filename' = inv.args[1]
                     /\ pc' = "arena_create"
                     /\ UNCHANGED <<output, exit_code>>
    /\ UNCHANGED <<arena, arena_destroys, fopens, fcloses, source,
                   parse_error, stmts_len, check_ok, checker_errors,
                   emitter_calls, cg, output_file, files, steps, failures,
                   result, parser_calls, checker_calls>>

\* main, lines 329-347: arena_create and the choice of the command
ArenaCreate ==
    /\ pc = "arena_create"
    /\ \E ok \in BOOLEAN :
          IF ~ok
          THEN /\ output' = Append(output,
                                   msg("Failed to initialize memory", <<>>))
               /\ failures' = failures \cup {"out_of_memory"}
               /\ exit_code' = 1
               /\ pc' = "exit"
               /\ UNCHANGED <<arena, result>>
          ELSE /\ arena' = "live"
               /\ IF command \in {"build", "check", "emit"}
                  THEN /\ pc' = "read_file"
                       /\ UNCHANGED <<output, result>>
                  ELSE /\ output' = output \o <<msg("Unknown command", <<>>),
                                                msg("usage", <<>>)>>
                       /\ result' = 1
                       /\ pc' = "arena_destroy"
               /\ UNCHANGED <<exit_code, failures>>
    /\ UNCHANGED <<argc, command, args, filename, readable, arena_destroys,
                   fopens, fcloses, source, parse_error, stmts_len, check_ok,
                   checker_errors, emitter_calls, cg, output_file, files,
                   steps, parser_calls, checker_calls>>

\* read_file returns NULL and its caller returns 1 (lines 205-208, 254-257,
\* 293-296)
ReadFailed(why) ==
    /\ source' = "NULL"
    /\ output' = Append(output, msg("Cannot read file", filename))
    /\ failures' = failures \cup {why}
    /\ result' = 1
    /\ pc' = "arena_destroy"

\* a call of fclose that is left out
fclose_skipped(n) == n

\* one call of fclose: the number of handles closed so far grows by one
fclose(n) == n + 1

\* read_file, lines 25-28
ReadOpen ==
    /\ pc = "read_file"
    /\ IF filename \in readable
       THEN /\ fopens' = fopens + 1
            /\ pc' = "read_size"
            /\ UNCHANGED <<source, output, failures, result>>
       ELSE /\ ReadFailed("no_such_file")
            /\ UNCHANGED fopens
    /\ UNCHANGED <<argc, command, args, filename, readable, arena,
                   arena_destroys, fcloses, parse_error, stmts_len, check_ok,
                   checker_errors, emitter_calls, cg, output_file, files,
                   steps, exit_code, parser_calls, checker_calls>>

\* read_file, lines 31-38
ReadSize ==
    /\ pc = "read_size"
    /\ \E negative \in BOOLEAN :
          IF negative
          THEN /\ fcloses' = fclose(fcloses)
               /\ ReadFailed("read_error")
          ELSE /\ pc' = "read_alloc"
               /\ UNCHANGED <<fcloses, source, output, failures, result>>
    /\ UNCHANGED <<argc, command, args, filename, readable, arena,
                   arena_destroys, fopens, parse_error, stmts_len, check_ok,
                   checker_errors, emitter_calls, cg, output_file, files,
                   steps, exit_code, parser_calls, checker_calls>>

\* read_file, lines 41-45
ReadAlloc ==
    /\ pc = "read_alloc"
    /\ \E ok \in BOOLEAN :
          IF ~ok
          THEN /\ fcloses' = fclose(fcloses)
               /\ ReadFailed("read_error")
          ELSE /\ pc' = "read_fread"
               /\ UNCHANGED <<fcloses, source, output, failures, result>>
    /\ UNCHANGED <<argc, command, args, filename, readable, arena,
                   arena_destroys, fopens, parse_error, stmts_len, check_ok,
                   checker_errors, emitter_calls, cg, output_file, files,
                   steps, exit_code, parser_calls, checker_calls>>

\* read_file, lines 48-56, and the caller up to its next call (line 210)
ReadRead ==
    /\ pc = "read_fread"
    /\ fcloses' = fclose(fcloses)
    /\ \E short \in BOOLEAN :
          IF short
          THEN ReadFailed("read_error")
          ELSE /\ source' = "text"
               /\ output' = IF command = "build"
                            THEN Append(output, msg("Compiling", filename))
                            ELSE output
               /\ pc' = IF command = "check" THEN "check_parse"
                        ELSE "compile_parse"
               /\ UNCHANGED <<failures, result>>
    /\ UNCHANGED <<argc, command, args, filename, readable, arena,
                   arena_destroys, fopens, parse_error, stmts_len, check_ok,
                   checker_errors, emitter_calls, cg, output_file, files,
                   steps, exit_code, parser_calls, checker_calls>>

\* the caller of compile_to_qbe receives NULL (lines 214-216, 300-302)
CompileFailed(text) ==
    /\ cg' = "NULL"
    /\ output' = Append(output, msg(text, filename))
    /\ result' = 1
    /\ pc' = "arena_destroy"

\* compile_to_qbe, lines 114-125
CompileParse ==
    /\ pc = "compile_parse"
    /\ \E pe \in BOOLEAN, len \in {-1, 0, 1} :
          /\ parser_calls' = parser_calls + 1
          /\ parse_error' = pe
          /\ stmts_len' = len
          /\ failures' = IF pe THEN failures \cup {"parse_error"}
                          ELSE failures
          /\ IF pe THEN CompileFailed("Parse error")
             ELSE IF len <= 0 THEN CompileFailed("No statements found")
             ELSE /\ pc' = "compile_check"
                  /\ UNCHANGED <<cg, output, result>>
    /\ UNCHANGED <<argc, command, args, filename, readable, arena,
                   arena_destroys, fopens, fcloses, source, check_ok,
                   checker_errors, emitter_calls, output_file, files, steps,
                   exit_code, checker_calls>>

\* the test with `and' in place of `or'
check_failed_both(ok, errs) == ~ok /\ errs

\* the test of line 131
check_failed(ok, errs) == ~ok \/ errs

\* compile_to_qbe, lines 128-135
CompileCheck ==
    /\ pc = "compile_check"
    /\ \E ok \in BOOLEAN, errs \in BOOLEAN :
          /\ checker_calls' = checker_calls + 1
          /\ check_ok' = ok
          /\ checker_errors' = errs
          /\ failures' = IF ~ok \/ errs THEN failures \cup {"type_error"}
                          ELSE failures
          /\ IF check_failed(ok, errs)
             THEN CompileFailed("Type error")
             ELSE /\ pc' = "compile_codegen"
                  /\ UNCHANGED <<cg, output, result>>
    /\ UNCHANGED <<argc, command, args, filename, readable, arena,
                   arena_destroys, fopens, fcloses, source, parse_error,
                   stmts_len, emitter_calls, output_file, files, steps,
                   exit_code, parser_calls>>

\* compile_to_qbe, lines 138-141
CompileCodegen ==
    /\ pc = "compile_codegen"
    /\ emitter_calls' = emitter_calls + 1
    /\ cg' = "cg"
    /\ pc' = IF command = "build" THEN "build_write" ELSE "emit_out"
    /\ UNCHANGED <<argc, command, args, filename, readable, arena,
                   arena_destroys, fopens, fcloses, source, parse_error,
                   stmts_len, check_ok, checker_errors, output_file, files,
                   steps, output, failures, result, exit_code, parser_calls,
                   checker_calls>>

\* cmd_check, lines 260-266
CheckParse ==
    /\ pc = "check_parse"
    /\ \E pe \in BOOLEAN, len \in {-1, 0, 1} :
          /\ parser_calls' = parser_calls + 1
          /\ parse_error' = pe
          /\ stmts_len' = len
          /\ IF pe
             THEN /\ output' = Append(output, msg("Parse error", filename))
                  /\ failures' = failures \cup {"parse_error"}
                  /\ result' = 1
                  /\ pc' = "arena_destroy"
             ELSE /\ pc' = "check_check"
                  /\ UNCHANGED <<output, failures, result>>
    /\ UNCHANGED <<argc, command, args, filename, readable, arena,
                   arena_destroys, fopens, fcloses, source, check_ok,
                   checker_errors, emitter_calls, cg, output_file, files,
                   steps, exit_code, checker_calls>>

\* the test that looks at the return value only
check_rejects_result_only(ok, errs) == ~ok

\* the test of line 272
check_rejects(ok, errs) == ~ok \/ errs

\* cmd_check, lines 269-279
CheckCheck ==
    /\ pc = "check_check"
    /\ \E ok \in BOOLEAN, errs \in BOOLEAN :
          /\ checker_calls' = checker_calls + 1
          /\ check_ok' = ok
          /\ checker_errors' = errs
          /\ failures' = IF ~ok \/ errs THEN failures \cup {"type_error"}
                          ELSE failures
          /\ IF check_rejects(ok, errs)
             THEN /\ output' = Append(output, msg("Type error", <<>>))
                  /\ result' = 1
             ELSE /\ output' = Append(output, msg("No type errors", filename))
                  /\ result' = 0
    /\ pc' = "arena_destroy"
    /\ UNCHANGED <<argc, command, args, filename, readable, arena,
                   arena_destroys, fopens, fcloses, source, parse_error,
                   stmts_len, emitter_calls, cg, output_file, files, steps,
                   exit_code, parser_calls>>

\* cmd_emit, lines 305-306
EmitOut ==
    /\ pc = "emit_out"
    /\ output' = Append(output, msg("IR", <<>>))
    /\ result' = 0
    /\ pc' = "arena_destroy"
    /\ UNCHANGED <<argc, command, args, filename, readable, arena,
                   arena_destroys, fopens, fcloses, source, parse_error,
                   stmts_len, check_ok, checker_errors, emitter_calls, cg,
                   output_file, files, steps, failures, exit_code,
                   parser_calls, checker_calls>>

\* get_basename, lines 65-86: the part of the name after the last slash or
\* backslash, up to its last dot
get_basename(name) ==
    LET slashes == {i \in 1..Len(name) : name[i] \in {"/", "\\"}}
        base == IF slashes = {} THEN 1
                ELSE 1 + CHOOSE i \in slashes : \A j \in slashes : j <= i
        dots == {i \in base..Len(name) : name[i] = "."}
        len == IF dots = {} THEN Len(name) - base + 1
               ELSE (CHOOSE i \in dots : \A j \in dots : j <= i) - base
    IN SubSeq(name, base, base + len - 1)

\* snprintf(..., "%s.<ext>", name), lines 157, 159, 221
with_ext(name, ext) == name \o <<".">> \o ext

ssa_file(base) == with_ext(base, <<"s", "s", "a">>)

asm_file(out) == with_ext(out, <<"s">>)

obj_file(out) == with_ext(out, <<"o">>)

\* one external step: the tool, the files it is given, the file it writes
step(tool, ins, out) == [tool |-> tool, ins |-> ins, out |-> out]

\* cmd_build, lines 219-230: get_basename and codegen_write
BuildWrite ==
    /\ pc = "build_write"
    /\ output_file' = get_basename(filename)
    /\ \E ok \in BOOLEAN :
          IF ok
          THEN /\ steps' = Append(steps, step("write_ir", {},
                                              ssa_file(output_file')))
               /\ files' = files \cup {ssa_file(output_file')}
               /\ pc' = "qbe"
               /\ UNCHANGED <<output, failures, result>>
          ELSE /\ output' = Append(output, msg("Cannot write QBE IR",
                                               ssa_file(output_file')))
               /\ failures' = failures \cup {"write_failed"}
               /\ result' = 1
               /\ pc' = "arena_destroy"
               /\ UNCHANGED <<steps, files>>
    /\ UNCHANGED <<argc, command, args, filename, readable, arena,
                   arena_destroys, fopens, fcloses, source, parse_error,
                   stmts_len, check_ok, checker_errors, emitter_calls, cg,
                   exit_code, parser_calls, checker_calls>>

\* values system() returns: -1 (no child), 0, 256 (the child exited with 1)
SystemReturns == {-1, 0, 256}

\* a test that takes only a negative value for a failure
tool_failed_negative(ret) == ret < 0

\* the test of lines 161, 170 and 179
tool_failed(ret) == ret # 0

\* one system() call of run_qbe_and_link; a failure makes run_qbe_and_link
\* return 1, which cmd_build returns (lines 232-240)
ExternalStep(at, cmd, text, why, next) ==
    /\ pc = at
    /\ steps' = Append(steps, cmd)
    /\ \E ret \in SystemReturns :
          /\ files' = IF ret = 0 THEN files \cup {cmd.out} ELSE files
          /\ failures' = IF ret = 0 THEN failures ELSE failures \cup {why}
          /\ IF tool_failed(ret)
             THEN /\ output' = Append(output, msg(text, <<>>))
                  /\ result' = 1
                  /\ pc' = "arena_destroy"
             ELSE /\ pc' = next
                  /\ UNCHANGED <<output, result>>
    /\ UNCHANGED <<argc, command, args, filename, readable, arena,
                   arena_destroys, fopens, fcloses, source, parse_error,
                   stmts_len, check_ok, checker_errors, emitter_calls, cg,
                   output_file, exit_code, parser_calls, checker_calls>>

\* run_qbe_and_link, lines 159-165
RunQbe ==
    ExternalStep("qbe",
                 step("qbe", {ssa_file(output_file)}, asm_file(output_file)),
                 "QBE compilation failed", "qbe_failed", "assemble")

\* run_qbe_and_link, lines 168-173
RunAssemble ==
    ExternalStep("assemble",
                 step("cc -c", {asm_file(output_file)}, obj_file(output_file)),
                 "Assembly failed", "assemble_failed", "link")

\* the files named in the link command of line 177
link_inputs(out) == {obj_file(out)}

\* run_qbe_and_link, lines 177-182
RunLink ==
    ExternalStep("link",
                 step("cc", link_inputs(output_file), output_file),
                 "Linking failed", "link_failed", "build_done")

\* run_qbe_and_link, lines 185-189, and cmd_build, lines 235-240
BuildDone ==
    /\ pc = "build_done"
    /\ steps' = steps \o <<step("unlink", {asm_file(output_file)}, <<>>),
                           step("unlink", {obj_file(output_file)}, <<>>),
                           step("unlink", {ssa_file(output_file)}, <<>>)>>
    /\ files' = files \ {asm_file(output_file), obj_file(output_file),
                         ssa_file(output_file)}
    /\ output' = Append(output, msg("Created executable", output_file))
    /\ result' = 0
    /\ pc' = "arena_destroy"
    /\ UNCHANGED <<argc, command, args, filename, readable, arena,
                   arena_destroys, fopens, fcloses, source, parse_error,
                   stmts_len, check_ok, checker_errors, emitter_calls, cg,
                   output_file, failures, exit_code, parser_calls,
                   checker_calls>>

\* main returning without a call of arena_destroy
ArenaDestroyMissing ==
    /\ pc = "arena_destroy"
    /\ exit_code' = result
    /\ pc' = "exit"
    /\ UNCHANGED <<argc, command, args, filename, readable, arena,
                   arena_destroys, fopens, fcloses, source, parse_error,
                   stmts_len, check_ok, checker_errors, emitter_calls, cg,
                   output_file, files, steps, output, failures, result,
                   parser_calls, checker_calls>>

\* main, lines 349-350
ArenaDestroy ==
    /\ pc = "arena_destroy"
    /\ arena' = "destroyed"
    /\ arena_destroys' = arena_destroys + 1
    /\ exit_code' = result
    /\ pc' = "exit"
    /\ UNCHANGED <<argc, command, args, filename, readable, fopens, fcloses,
                   source, parse_error, stmts_len, check_ok, checker_errors,
                   emitter_calls, cg, output_file, files, steps, output,
                   failures, result, parser_calls, checker_calls>>

(***************************************************************************)
(* Runtime (runtime/fern_runtime.c): the packed Result and Option words.   *)
(* An int64_t is modelled by its two 32-bit halves, each held as the       *)
(* signed value of its bit pattern: the word [hi |-> h, lo |-> l] is the   *)
(* 64-bit pattern h * 2^32 + (l mod 2^32).  The shifts are those of the    *)
(* compilers the driver calls (cc): << wraps modulo 2^64 and >> of a       *)
(* negative value copies the sign bit.                                     *)
(***************************************************************************)
INT32_MAX == 2147483647

INT32_MIN == -2147483647 - 1

\* the halves the payloads are built from
Halves == {INT32_MIN, -2, -1, 0, 1, 2, INT32_MAX}

Words == [hi : Halves, lo : Halves]

\* (int64_t)x of an int32_t x kept without its sign
zero_extend(x) == [hi |-> 0, lo |-> x]

\* (int64_t)x of an int32_t x
sign_extend(x) == [hi |-> IF x < 0 THEN -1 ELSE 0, lo |-> x]

\* w & 0xFFFFFFFF
and_low32(w) == [hi |-> 0, lo |-> w.lo]

\* w << 32
shl32(w) == [hi |-> w.lo, lo |-> 0]

\* w | tag that loses the tag
or_tag_lost(w, tag) == w

\* w | tag, for a tag of 0 or 1
or_tag(w, tag) ==
    [hi |-> w.hi,
     lo |-> IF tag = 1 /\ w.lo % 2 = 0 THEN w.lo + 1 ELSE w.lo]

\* w >> 32
sar32(w) == [hi |-> IF w.hi < 0 THEN -1 ELSE 0, lo |-> w.hi]

\* (int32_t)w
to_int32(w) == w.lo

\* x + 1 on 32 bits
inc32(x) == IF x = INT32_MAX THEN INT32_MIN ELSE x + 1

\* w + 1 on 64 bits
inc64(w) ==
    [hi |-> IF w.lo = -1 THEN inc32(w.hi) ELSE w.hi, lo |-> inc32(w.lo)]

RESULT_TAG_OK == 0

RESULT_TAG_ERR == 1

OPTION_TAG_NONE == 0

OPTION_TAG_SOME == 1

\* fern_runtime.c, lines 269-272
fern_result_ok(value) == or_tag(shl32(and_low32(value)), RESULT_TAG_OK)

\* lines 279-282
fern_result_err(value) == or_tag(shl32(and_low32(value)), RESULT_TAG_ERR)

\* a test that takes every word for Ok
is_ok_always(res) == 1

\* lines 289-291
fern_result_is_ok(res) ==
    IF and_low32(res) = sign_extend(RESULT_TAG_OK) THEN 1 ELSE 0

\* lines 298-301
fern_result_unwrap(res) == sign_extend(to_int32(sar32(res)))

\* the functions passed as fn: x + 1, a value beyond 32 bits, and two that
\* return a Result
Fns == {"inc", "wide", "to_ok", "to_err"}

\* fn(x)
apply(fn, x) ==
    CASE fn = "inc" -> inc64(x)
      [] fn = "wide" -> [hi |-> 1, lo |-> x.lo]
      [] fn = "to_ok" -> fern_result_ok(inc64(x))
      [] fn = "to_err" -> fern_result_err(x)

\* lines 309-316; `called' lists the arguments fn has been called with
fern_result_map(res, fn) ==
    IF fern_result_is_ok(res) # 0
    THEN LET value == fern_result_unwrap(res)
         IN [ret |-> fern_result_ok(apply(fn, value)), called |-> <<value>>]
    ELSE [ret |-> res, called |-> <<>>]

\* lines 324-331
fern_result_and_then(res, fn) ==
    IF fern_result_is_ok(res) # 0
    THEN LET value == fern_result_unwrap(res)
         IN [ret |-> apply(fn, value), called |-> <<value>>]
    ELSE [ret |-> res, called |-> <<>>]

\* lines 339-344
fern_result_unwrap_or(res, default_val) ==
    IF fern_result_is_ok(res) # 0
    THEN fern_result_unwrap(res)
    ELSE default_val

\* lines 376-378
fern_option_some(value) == or_tag(shl32(and_low32(value)), OPTION_TAG_SOME)

\* lines 384-386
fern_option_none == sign_extend(OPTION_TAG_NONE)

\* lines 393-395
fern_option_is_some(option) ==
    IF and_low32(option) = sign_extend(OPTION_TAG_SOME) THEN 1 ELSE 0

\* lines 402-404
fern_option_unwrap(option) == sign_extend(to_int32(sar32(option)))

RuntimeFresh ==
    /\ rt_made = "nothing"
    /\ rt_word = sign_extend(0)
    /\ rt_call = "none"
    /\ rt_fn = "none"
    /\ rt_default = sign_extend(0)
    /\ rt_ret = sign_extend(0)
    /\ fn_args = <<>>

\* the runtime is not called in the scanner and driver specifications
RuntimeIdle == rt_value = sign_extend(0) /\ RuntimeFresh

\* a program holds a payload and has not called the runtime yet
RuntimeInit == rt_value \in Words /\ RuntimeFresh

\* a call of a constructor: its result is the word the later calls are given
Construct(made, word) ==
    /\ rt_made = "nothing"
    /\ rt_made' = made
    /\ rt_word' = word
    /\ UNCHANGED <<rt_value, rt_call, rt_fn, rt_default, rt_ret, fn_args>>

ResultOk == Construct("ok", fern_result_ok(rt_value))

ResultErr == Construct("err", fern_result_err(rt_value))

OptionSome == Construct("some", fern_option_some(rt_value))

OptionNone == Construct("none", fern_option_none)

\* a call of a function that takes the word and calls no fn
Call(kinds, name, ret) ==
    /\ rt_made \in kinds
    /\ rt_call' = name
    /\ rt_ret' = ret
    /\ rt_fn' = "none"
    /\ rt_default' = sign_extend(0)
    /\ fn_args' = <<>>
    /\ UNCHANGED <<rt_value, rt_made, rt_word>>

ResultIsOk ==
    Call({"ok", "err"}, "fern_result_is_ok",
         sign_extend(fern_result_is_ok(rt_word)))

ResultUnwrap ==
    Call({"ok", "err"}, "fern_result_unwrap", fern_result_unwrap(rt_word))

OptionIsSome ==
    Call({"some", "none"}, "fern_option_is_some",
         sign_extend(fern_option_is_some(rt_word)))

OptionUnwrap ==
    Call({"some", "none"}, "fern_option_unwrap", fern_option_unwrap(rt_word))

\* a call of a function that takes the word and a function pointer
CallWithFn(name, fn, r) ==
    /\ rt_made \in {"ok", "err"}
    /\ rt_call' = name
    /\ rt_fn' = fn
    /\ rt_default' = sign_extend(0)
    /\ rt_ret' = r.ret
    /\ fn_args' = r.called
    /\ UNCHANGED <<rt_value, rt_made, rt_word>>

ResultMap ==
    \E fn \in Fns : CallWithFn("fern_result_map", fn,
                               fern_result_map(rt_word, fn))

ResultAndThen ==
    \E fn \in Fns : CallWithFn("fern_result_and_then", fn,
                               fern_result_and_then(rt_word, fn))

ResultUnwrapOr ==
    /\ rt_made \in {"ok", "err"}
    /\ \E d \in {sign_extend(7), [hi |-> 1, lo |-> -1]} :
          /\ rt_default' = d
          /\ rt_ret' = fern_result_unwrap_or(rt_word, d)
    /\ rt_call' = "fern_result_unwrap_or"
    /\ rt_fn' = "none"
    /\ fn_args' = <<>>
    /\ UNCHANGED <<rt_value, rt_made, rt_word>>

(***************************************************************************)
(* Runtime lists (runtime/fern_runtime.c, lines 107-201).  The heap is the *)
(* sequence of the FernList objects allocated so far; a FernList* is an    *)
(* index into it.  `data' holds the slots written so far (slot i of the C  *)
(* array is data[i + 1]); the slots beyond are uninitialised.  assert is   *)
(* taken as compiled in: a failed assertion aborts the process.            *)
(***************************************************************************)
\* fn(x)
list_fn(fn, x) == IF fn = "inc" THEN x + 1 ELSE 0 - x

\* lines 122-131; the result is the heap, the pointer returned (0 when the
\* assertion of line 123 has failed) and whether the process has aborted
fern_list_with_capacity(h, cap) ==
    IF cap > 0
    THEN [heap |-> Append(h, [data |-> <<>>, len |-> 0, cap |-> cap]),
          ret |-> Len(h) + 1, aborted |-> FALSE]
    ELSE [heap |-> h, ret |-> 0, aborted |-> TRUE]

\* lines 113-115
fern_list_new(h) == fern_list_with_capacity(h, 8)

\* the capacity of the argument kept although it is full
new_cap_kept(len, cap) == cap

\* lines 165-168
new_cap(len, cap) == IF len + 1 < cap THEN cap ELSE len + 1

\* a push that stores the value in the argument and returns the argument
push_in_place(h, list, value) ==
    [heap |-> [h EXCEPT ![list].data = Append(h[list].data, value),
                        ![list].len = h[list].len + 1],
     ret |-> list, aborted |-> FALSE]

\* lines 161-180
fern_list_push(h, list, value) ==
    LET len == h[list].len
        made == fern_list_with_capacity(h, new_cap(len, h[list].cap))
        new_list == made.ret
    IN [heap |-> [made.heap EXCEPT
                    ![new_list].data =
                        [i \in 1..(len + 1) |->
                            IF i <= len THEN h[list].data[i] ELSE value],
                    ![new_list].len = len + 1],
        ret |-> new_list, aborted |-> FALSE]

\* lines 188-201
fern_list_map(h, list, fn) ==
    LET len == h[list].len
        made == fern_list_with_capacity(h, IF len > 0 THEN len ELSE 1)
        new_list == made.ret
    IN [heap |-> [made.heap EXCEPT
                    ![new_list].data =
                        [i \in 1..len |-> list_fn(fn, h[list].data[i])],
                    ![new_list].len = len],
        ret |-> new_list, aborted |-> FALSE]

\* lines 149-153; ret is the value returned, 0 when the process has aborted
fern_list_get(h, list, index) ==
    IF index >= 0 /\ index < h[list].len
    THEN [heap |-> h, ret |-> h[list].data[index + 1], aborted |-> FALSE]
    ELSE [heap |-> h, ret |-> 0, aborted |-> TRUE]

\* no list has been allocated
ListIdle ==
    /\ heap = <<>>
    /\ list_call = [op |-> "none", list |-> 0, arg |-> 0, fn |-> "none",
                    ret |-> 0]
    /\ aborted = FALSE

\* one call of a list function by the program
ListCall(op, list, arg, fn, r) ==
    /\ ~aborted
    /\ Len(r.heap) <= MaxLists
    /\ heap' = r.heap
    /\ aborted' = r.aborted
    /\ list_call' = [op |-> op, list |-> list, arg |-> arg, fn |-> fn,
                     ret |-> r.ret]

ListNew == ListCall("fern_list_new", 0, 0, "none", fern_list_new(heap))

ListWithCapacity ==
    \E cap \in {0, 1, 2} :
       ListCall("fern_list_with_capacity", 0, cap, "none",
                fern_list_with_capacity(heap, cap))

ListPush ==
    \E list \in DOMAIN heap, value \in {1, 2} :
       ListCall("fern_list_push", list, value, "none",
                fern_list_push(heap, list, value))

ListMap ==
    \E list \in DOMAIN heap, fn \in {"inc", "neg"} :
       ListCall("fern_list_map", list, 0, fn, fern_list_map(heap, list, fn))

ListGet ==
    \E list \in DOMAIN heap, index \in -1..3 :
       ListCall("fern_list_get", list, index, "none",
                fern_list_get(heap, list, index))

(***************************************************************************)
(* The lexer (src/include/lexer.h).  lexer.c is not among the sources:     *)
(* LexerState is the struct of the header, the scanning and the layout     *)
(* follow section 4.1 of the specification.  A source is a sequence of the *)
(* characters " ", "x" (an identifier) and "\n".                           *)
(***************************************************************************)
\* a token: {kind, line, column}
token(kind, line, column) == [kind |-> kind, line |-> line, column |-> column]

\* the lexer after lexer_new: position 0, line 1, column 1, stack [0]
lexer_new(src) ==
    [source |-> src, current |-> 0, line |-> 1, column |-> 1,
     indents |-> <<0>>]

\* the three fields of LexerState taken from the lexer
lexer_save(lex) ==
    [current |-> lex.current, line |-> lex.line, column |-> lex.column]

\* the three fields of LexerState put back into the lexer
lexer_restore(lex, state) ==
    [lex EXCEPT !.current = state.current, !.line = state.line,
                !.column = state.column]

\* lexer_next: the lexer after the call and the token returned
RECURSIVE lexer_next(_)
lexer_next(lex) ==
    LET src == lex.source
        \* width of the white space at the position
        w == CHOOSE n \in 0..(Len(src) - lex.current) :
                /\ \A i \in 1..n : src[lex.current + i] = " "
                /\ \/ lex.current + n = Len(src)
                   \/ src[lex.current + n + 1] # " "
        at == lex.current + w
        top == lex.indents[Len(lex.indents)]
        line_start == lex.column = 1
        \* the offset of the end of the line
        eol == CHOOSE e \in at..Len(src) :
                  /\ \A i \in (at + 1)..e : src[i] # "\n"
                  /\ e = Len(src) \/ src[e + 1] = "\n"
    IN IF at = Len(src)
       THEN \* end of input: DEDENT until the stack is [0], then EOF
            IF Len(lex.indents) > 1
            THEN [lex |-> [lex EXCEPT !.indents = SubSeq(@, 1, Len(@) - 1)],
                  tok |-> token("DEDENT", lex.line, lex.column)]
            ELSE [lex |-> lex, tok |-> token("EOF", lex.line, lex.column)]
       ELSE IF line_start /\ src[at + 1] = "\n"
       THEN \* a blank line does not affect layout
            lexer_next([lex EXCEPT !.current = at + 1, !.line = @ + 1,
                                   !.column = 1])
       ELSE IF line_start /\ w > top
       THEN [lex |-> [lex EXCEPT !.indents = Append(@, w)],
             tok |-> token("INDENT", lex.line, lex.column)]
       ELSE IF line_start /\ w < top
       THEN IF \E i \in 1..Len(lex.indents) : lex.indents[i] = w
            THEN [lex |-> [lex EXCEPT !.indents = SubSeq(@, 1, Len(@) - 1)],
                  tok |-> token("DEDENT", lex.line, lex.column)]
            ELSE \* mismatched dedent: error token, continue at the newline
                 [lex |-> [lex EXCEPT !.current = eol,
                                      !.column = @ + (eol - lex.current)],
                  tok |-> token("ERROR", lex.line, lex.column + w)]
       ELSE IF src[at + 1] = "\n"
       THEN [lex |-> [lex EXCEPT !.current = at + 1, !.line = @ + 1,
                                 !.column = 1],
             tok |-> token("NEWLINE", lex.line, lex.column + w)]
       ELSE [lex |-> [lex EXCEPT !.current = at + 1, !.column = @ + w + 1],
             tok |-> token("IDENT", lex.line, lex.column + w)]

\* lexer_peek: the token lexer_next would return; the lexer does not advance
lexer_peek(lex) == lexer_next(lex).tok

\* before lexer_new: no lexer call yet, no snapshot taken
LexerIdle ==
    /\ lexer = lexer_new(<<>>)
    /\ snapshot = <<>>
    /\ lexer_at_save = <<>>
    /\ lexer_call = [op |-> "none", tok |-> token("none", 0, 0)]

LexerNew ==
    /\ lexer_call.op = "none"
    /\ \E n \in 0..MaxSrc :
          \E src \in [1..n -> {" ", "x", "\n"}] : lexer' = lexer_new(src)
    /\ lexer_call' = [op |-> "lexer_new", tok |-> token("none", 0, 0)]
    /\ UNCHANGED <<snapshot, lexer_at_save>>

LexerNext ==
    /\ lexer_call.op # "none"
    /\ lexer' = lexer_next(lexer).lex
    /\ lexer_call' = [op |-> "lexer_next", tok |-> lexer_next(lexer).tok]
    /\ UNCHANGED <<snapshot, lexer_at_save>>

LexerPeek ==
    /\ lexer_call.op # "none"
    /\ lexer_call' = [op |-> "lexer_peek", tok |-> lexer_peek(lexer)]
    /\ UNCHANGED <<lexer, snapshot, lexer_at_save>>

\* lexer_at_save keeps the whole lexer of the moment of the save
LexerSave ==
    /\ lexer_call.op # "none"
    /\ snapshot' = <<lexer_save(lexer)>>
    /\ lexer_at_save' = <<lexer>>
    /\ lexer_call' = [op |-> "lexer_save", tok |-> token("none", 0, 0)]
    /\ UNCHANGED lexer

LexerRestore ==
    /\ snapshot # <<>>
    /\ lexer' = lexer_restore(lexer, snapshot[1])
    /\ lexer_call' = [op |-> "lexer_restore", tok |-> token("none", 0, 0)]
    /\ UNCHANGED <<snapshot, lexer_at_save>>

(***************************************************************************)
(* The REPL (src/lib/repl.c).  A line is the sequence of its characters.   *)
(* The parser and the checker are not among the sources: whether a text    *)
(* parses and whether it is well typed are inputs of each call, and the    *)
(* checker's error list is the number of errors it holds.                  *)
(***************************************************************************)
\* the lines handed to the REPL
ReplLines ==
    {<<>>,
     <<" ">>,
     <<"\t", " ">>,
     <<":", "q", "u", "i", "t">>,
     <<":", "q">>,
     <<" ", ":", "q">>,
     <<":", "h", "e", "l", "p">>,
     <<":", "c", "l", "e", "a", "r">>,
     <<":", "t", "y", "p", "e", " ", "1">>,
     <<":", "t", " ", " ", "x">>,
     <<":", "t", "y", "p", "e", " ">>,
     <<":", "b", "a", "d">>,
     <<":", "l", "e", "t", " ", "x">>,
     <<"l", "e", "t", " ", "x">>,
     <<" ", "l", "e", "t", " ", "x">>,
     <<"l", "e", "t">>,
     <<"l", "e", "t", "x">>,
     <<"f", "n", " ", "f">>,
     <<"p", "u", "b", " ", "f">>,
     <<"t", "y", "p", "e", " ", "T">>,
     <<"i", "m", "p", "o", "r", "t", " ", "m">>,
     <<"t", "y", "p", "e", ":", "T">>,
     <<"1">>,
     <<"\t", "x">>}

\* strncmp(line, prefix, strlen(prefix)) == 0 with the trailing blank dropped
\* from the prefix
starts_with_word(line, prefix) ==
    /\ Len(line) >= Len(prefix) - 1
    /\ SubSeq(line, 1, Len(prefix) - 1) = SubSeq(prefix, 1, Len(prefix) - 1)

\* strncmp(line, prefix, strlen(prefix)) == 0
starts_with(line, prefix) ==
    /\ Len(line) >= Len(prefix)
    /\ SubSeq(line, 1, Len(prefix)) = prefix

\* the loops `while (*line == ' ' || ...) line++': line without its leading
\* characters of the set
skip_chars(line, set) ==
    LET k == CHOOSE n \in 0..Len(line) :
                /\ \A i \in 1..n : line[i] \in set
                /\ n = Len(line) \/ line[n + 1] \notin set
    IN SubSeq(line, k + 1, Len(line))

\* what a call leaves: the value returned, the path taken, should_exit, the
\* checker's error list, the texts handed to parser_new and the number of
\* checker runs
outcome(ret, path, exit, errs, parsed, checked) ==
    [ret |-> ret, path |-> path, exit |-> exit, errors |-> errs,
     parsed |-> parsed, checked |-> checked]

\* parser_new and parse, the `parse error' return, the checker run and the
\* `type error' return, as in lines 389-403, 348-361 and 688-702
parse_and_check(path, exit, errs, text, parses, typed) ==
    IF ~parses
    THEN outcome(FALSE, path, exit, errs, <<text>>, 0)
    ELSE LET held == errs + (IF typed THEN 0 ELSE 1)
         IN outcome(~(held > 0 \/ ~typed), path, exit, held, <<text>>, 1)

\* lines 304-372
repl_handle_command(exit, errs, line, parses, typed) ==
    LET cmd == Tail(line)
        is_type == starts_with(cmd, <<"t", "y", "p", "e", " ">>)
        is_t == starts_with(cmd, <<"t", " ">>)
        expr_str == skip_chars(SubSeq(cmd, IF is_type THEN 6 ELSE 3,
                                      Len(cmd)), {" "})
    IN IF cmd = <<"q", "u", "i", "t">> \/ cmd = <<"q">>
       THEN outcome(TRUE, "command", TRUE, errs, <<>>, 0)
       ELSE IF \/ cmd = <<"h", "e", "l", "p">> \/ cmd = <<"h">>
               \/ cmd = <<"c", "l", "e", "a", "r">>
       THEN outcome(TRUE, "command", exit, errs, <<>>, 0)
       ELSE IF is_type \/ is_t
       THEN IF expr_str = <<>>
            THEN outcome(FALSE, "command", exit, errs, <<>>, 0)
            ELSE parse_and_check("command", exit, errs, expr_str, parses,
                                 typed)
       ELSE outcome(FALSE, "command", exit, errs, <<>>, 0)

\* lines 383-416
repl_eval_expression(exit, errs, line, parses, typed) ==
    parse_and_check("expression", exit, errs, line, parses, typed)

\* lines 683-725
repl_eval_statement(exit, errs, line, parses, typed) ==
    parse_and_check("statement", exit, errs, line, parses, typed)

\* lines 203-229 of repl_eval_line, from the skipping of white space on
eval_line_from(exit, errs, line, parses, typed) ==
    LET text == skip_chars(line, {" ", "\t"})
    IN IF text = <<>>
       THEN outcome(TRUE, "empty", exit, errs, <<>>, 0)
       ELSE IF text[1] = ":"
       THEN repl_handle_command(exit, errs, text, parses, typed)
       ELSE IF \/ starts_with(text, <<"l", "e", "t", " ">>)
               \/ starts_with(text, <<"f", "n", " ">>)
               \/ starts_with(text, <<"p", "u", "b", " ">>)
               \/ starts_with(text, <<"t", "y", "p", "e", " ">>)
               \/ starts_with(text, <<"i", "m", "p", "o", "r", "t", " ">>)
       THEN repl_eval_statement(exit, errs, text, parses, typed)
       ELSE repl_eval_expression(exit, errs, text, parses, typed)

\* repl_eval_line without the call of checker_clear_errors
eval_line_keeping_errors(exit, errs, line, parses, typed) ==
    eval_line_from(exit, errs, line, parses, typed)

\* lines 196-229: checker_clear_errors, then the dispatch
repl_eval_line(exit, errs, line, parses, typed) ==
    eval_line_from(exit, 0, line, parses, typed)

\* lines 255-259
repl_should_exit == should_exit

\* after repl_new: should_exit false, a new checker, repl_run not called
ReplIdle ==
    /\ should_exit = FALSE
    /\ checker_errs = 0
    /\ repl_pc = "new"
    /\ repl_call = [op |-> "none", line |-> <<>>, parses |-> FALSE,
                    typed |-> FALSE, before |-> 0,
                    made |-> outcome(FALSE, "none", FALSE, 0, <<>>, 0)]

\* one turn of the loop of repl_run (lines 160-174): linenoise has returned a
\* line; the empty line is skipped, any other goes to repl_eval_line
ReplRunLine ==
    /\ repl_pc \in {"new", "run"}
    /\ ~should_exit
    /\ repl_pc' = "run"
    /\ \E line \in ReplLines, parses \in BOOLEAN, typed \in BOOLEAN :
          IF line = <<>>
          THEN /\ repl_call' = [repl_call EXCEPT !.op = "skipped"]
               /\ UNCHANGED <<should_exit, checker_errs>>
          ELSE LET made == repl_eval_line(should_exit, checker_errs, line,
                                          parses, typed)
               IN /\ should_exit' = made.exit
                  /\ checker_errs' = made.errors
                  /\ repl_call' = [op |-> "repl_eval_line", line |-> line,
                                   parses |-> parses, typed |-> typed,
                                   before |-> checker_errs, made |-> made]

\* linenoise returns NULL: the loop ends and repl_run returns (lines 160-184)
ReplRunEof ==
    /\ repl_pc \in {"new", "run"}
    /\ ~should_exit
    /\ repl_pc' = "ended"
    /\ repl_call' = [repl_call EXCEPT !.op = "eof"]
    /\ UNCHANGED <<should_exit, checker_errs>>

\* the loop finds should_exit set and repl_run returns (lines 160-184)
ReplRunQuit ==
    /\ repl_pc \in {"new", "run"}
    /\ should_exit
    /\ repl_pc' = "ended"
    /\ repl_call' = [repl_call EXCEPT !.op = "quit"]
    /\ UNCHANGED <<should_exit, checker_errs>>

(***************************************************************************)
(* The IR emitter (src/include/codegen.h).  codegen.c is not among the     *)
(* sources: the emitter follows section 4.4 of the specification.  An      *)
(* emitter holds the counter of temporaries, the counter of labels and the *)
(* output; the output keeps the definitions of temporaries ("def", %tn),   *)
(* the labels ("label", @Ln), the branches of if-expressions ("jnz" with   *)
(* the condition n and the labels a, b, c of then, else and join) and the  *)
(* starts of items ("let", "fn").  An expression is an integer literal, a  *)
(* binary operation or an if-expression.                                   *)
(***************************************************************************)
\* a label taken without advancing the counter
label_reused(em) == [em |-> em, ret |-> em.label]

\* the next label @Ln of the emitter
new_label(em) == [em |-> [em EXCEPT !.label = @ + 1], ret |-> em.label]

\* codegen_expr: the emitter after the call and the temporary returned
RECURSIVE codegen_expr(_, _)
codegen_expr(em, expr) ==
    LET \* the definition of the next temporary %tn
        define(e) ==
            [em |-> [e EXCEPT !.temp = @ + 1,
                              !.out = Append(@, [op |-> "def", n |-> e.temp,
                                                 a |-> 0, b |-> 0, c |-> 0])],
             ret |-> e.temp]
        label(e, l) ==
            [e EXCEPT !.out = Append(@, [op |-> "label", n |-> l, a |-> 0,
                                         b |-> 0, c |-> 0])]
    IN IF expr.kind = "int"
       THEN define(em)
       ELSE IF expr.kind = "bin"
       THEN LET l == codegen_expr(em, expr.l)
                r == codegen_expr(l.em, expr.r)
            IN define(r.em)
       ELSE \* if c: a else: b
            LET cond == codegen_expr(em, expr.c)
                then == new_label(cond.em)
                else == new_label(then.em)
                join == new_label(else.em)
                jnz == [join.em EXCEPT
                          !.out = Append(@, [op |-> "jnz", n |-> cond.ret,
                                             a |-> then.ret, b |-> else.ret,
                                             c |-> join.ret])]
                arm_a == codegen_expr(label(jnz, then.ret), expr.a)
                arm_b == codegen_expr(label(arm_a.em, else.ret), expr.b)
            IN \* the phi of the join block defines the result
               define(label(arm_b.em, join.ret))

\* codegen_stmt: a let binding or a function definition with the body
codegen_stmt(em, stmt) ==
    codegen_expr([em EXCEPT !.out = Append(@, [op |-> stmt.kind, n |-> 0,
                                               a |-> 0, b |-> 0, c |-> 0])],
                 stmt.body).em

\* codegen_program: the statements in order
RECURSIVE codegen_program(_, _)
codegen_program(em, stmts) ==
    IF stmts = <<>> THEN em
    ELSE codegen_program(codegen_stmt(em, Head(stmts)), Tail(stmts))

\* after codegen_new: both counters 0, empty output
CodegenIdle ==
    /\ emitter = [temp |-> 0, label |-> 0, out |-> <<>>]
    /\ emit_call = [op |-> "none", ret |-> 0, calls |-> 0]

CodegenExpr ==
    /\ emit_call.calls < MaxEmits
    /\ LET int == [kind |-> "int"]
           flat == {int, [kind |-> "bin", l |-> int, r |-> int],
                    [kind |-> "if", c |-> int, a |-> int, b |-> int]}
           exprs == flat \cup {[kind |-> "bin", l |-> l, r |-> r] :
                                 l \in flat, r \in flat}
                         \cup {[kind |-> "if", c |-> int, a |-> a, b |-> b] :
                                 a \in flat, b \in flat}
       IN \E expr \in exprs :
             /\ emitter' = codegen_expr(emitter, expr).em
             /\ emit_call' = [op |-> "codegen_expr",
                              ret |-> codegen_expr(emitter, expr).ret,
                              calls |-> emit_call.calls + 1]

CodegenStmt ==
    /\ emit_call.calls < MaxEmits
    /\ LET int == [kind |-> "int"]
           bodies == {int, [kind |-> "if", c |-> int, a |-> int, b |-> int]}
       IN \E kind \in {"let", "fn"}, body \in bodies :
             /\ emitter' = codegen_stmt(emitter,
                                        [kind |-> kind, body |-> body])
             /\ emit_call' = [op |-> "codegen_stmt", ret |-> 0,
                              calls |-> emit_call.calls + 1]

CodegenProgram ==
    /\ emit_call.calls < MaxEmits
    /\ LET int == [kind |-> "int"]
           bodies == {int, [kind |-> "if", c |-> int, a |-> int, b |-> int]}
           stmts == {[kind |-> kind, body |-> body] :
                       kind \in {"let", "fn"}, body \in bodies}
       IN \E n \in 0..2 : \E program \in [1..n -> stmts] :
             /\ emitter' = codegen_program(emitter, program)
             /\ emit_call' = [op |-> "codegen_program", ret |-> 0,
                              calls |-> emit_call.calls + 1]

(***************************************************************************)
(* Specifications.                                                         *)
(***************************************************************************)
Init == ScannerInit /\ DriverIdle /\ RuntimeIdle /\ ListIdle /\ LexerIdle /\ ReplIdle /\ CodegenIdle

Next ==
    \/ Feed /\ UNCHANGED <<driverVars, runtimeVars, listVars, lexerVars, replVars, codegenVars>>
    \/ ScanAny /\ UNCHANGED <<driverVars, runtimeVars, listVars, lexerVars, replVars, codegenVars>>
    \/ LexToken /\ UNCHANGED <<driverVars, runtimeVars, listVars, lexerVars, replVars, codegenVars>>
    \/ LexExtra /\ UNCHANGED <<driverVars, runtimeVars, listVars, lexerVars, replVars, codegenVars>>
    \/ Serialize /\ UNCHANGED <<driverVars, runtimeVars, listVars, lexerVars, replVars, codegenVars>>
    \/ Deserialize /\ UNCHANGED <<driverVars, runtimeVars, listVars, lexerVars, replVars, codegenVars>>
    \/ DeserializeEmpty /\ UNCHANGED <<driverVars, runtimeVars, listVars, lexerVars, replVars, codegenVars>>

Spec == Init /\ [][Next]_vars

NextDeep ==
    \/ FeedDeeper /\ UNCHANGED <<driverVars, runtimeVars, listVars, lexerVars, replVars, codegenVars>>
    \/ ScanDeep /\ UNCHANGED <<driverVars, runtimeVars, listVars, lexerVars, replVars, codegenVars>>
    \/ LexToken /\ UNCHANGED <<driverVars, runtimeVars, listVars, lexerVars, replVars, codegenVars>>
    \/ Serialize /\ UNCHANGED <<driverVars, runtimeVars, listVars, lexerVars, replVars, codegenVars>>
    \/ Deserialize /\ UNCHANGED <<driverVars, runtimeVars, listVars, lexerVars, replVars, codegenVars>>

SpecDeep == Init /\ [][NextDeep]_vars

InitDriver == ScannerInit /\ DriverInit /\ RuntimeIdle /\ ListIdle /\ LexerIdle /\ ReplIdle /\ CodegenIdle

NextDriver ==
    \/ MainArgs /\ UNCHANGED <<scannerVars, runtimeVars, listVars, lexerVars, replVars, codegenVars>>
    \/ ArenaCreate /\ UNCHANGED <<scannerVars, runtimeVars, listVars, lexerVars, replVars, codegenVars>>
    \/ ReadOpen /\ UNCHANGED <<scannerVars, runtimeVars, listVars, lexerVars, replVars, codegenVars>>
    \/ ReadSize /\ UNCHANGED <<scannerVars, runtimeVars, listVars, lexerVars, replVars, codegenVars>>
    \/ ReadAlloc /\ UNCHANGED <<scannerVars, runtimeVars, listVars, lexerVars, replVars, codegenVars>>
    \/ ReadRead /\ UNCHANGED <<scannerVars, runtimeVars, listVars, lexerVars, replVars, codegenVars>>
    \/ CompileParse /\ UNCHANGED <<scannerVars, runtimeVars, listVars, lexerVars, replVars, codegenVars>>
    \/ CompileCheck /\ UNCHANGED <<scannerVars, runtimeVars, listVars, lexerVars, replVars, codegenVars>>
    \/ CompileCodegen /\ UNCHANGED <<scannerVars, runtimeVars, listVars, lexerVars, replVars, codegenVars>>
    \/ CheckParse /\ UNCHANGED <<scannerVars, runtimeVars, listVars, lexerVars, replVars, codegenVars>>
    \/ CheckCheck /\ UNCHANGED <<scannerVars, runtimeVars, listVars, lexerVars, replVars, codegenVars>>
    \/ EmitOut /\ UNCHANGED <<scannerVars, runtimeVars, listVars, lexerVars, replVars, codegenVars>>
    \/ BuildWrite /\ UNCHANGED <<scannerVars, runtimeVars, listVars, lexerVars, replVars, codegenVars>>
    \/ RunQbe /\ UNCHANGED <<scannerVars, runtimeVars, listVars, lexerVars, replVars, codegenVars>>
    \/ RunAssemble /\ UNCHANGED <<scannerVars, runtimeVars, listVars, lexerVars, replVars, codegenVars>>
    \/ RunLink /\ UNCHANGED <<scannerVars, runtimeVars, listVars, lexerVars, replVars, codegenVars>>
    \/ BuildDone /\ UNCHANGED <<scannerVars, runtimeVars, listVars, lexerVars, replVars, codegenVars>>
    \/ ArenaDestroy /\ UNCHANGED <<scannerVars, runtimeVars, listVars, lexerVars, replVars, codegenVars>>

SpecDriver == InitDriver /\ [][NextDriver]_vars

InitRuntime == ScannerInit /\ DriverIdle /\ RuntimeInit /\ ListIdle /\ LexerIdle /\ ReplIdle /\ CodegenIdle

NextRuntime ==
    \/ ResultOk /\ UNCHANGED <<scannerVars, driverVars, listVars, lexerVars, replVars, codegenVars>>
    \/ ResultErr /\ UNCHANGED <<scannerVars, driverVars, listVars, lexerVars, replVars, codegenVars>>
    \/ OptionSome /\ UNCHANGED <<scannerVars, driverVars, listVars, lexerVars, replVars, codegenVars>>
    \/ OptionNone /\ UNCHANGED <<scannerVars, driverVars, listVars, lexerVars, replVars, codegenVars>>
    \/ ResultIsOk /\ UNCHANGED <<scannerVars, driverVars, listVars, lexerVars, replVars, codegenVars>>
    \/ ResultUnwrap /\ UNCHANGED <<scannerVars, driverVars, listVars, lexerVars, replVars, codegenVars>>
    \/ OptionIsSome /\ UNCHANGED <<scannerVars, driverVars, listVars, lexerVars, replVars, codegenVars>>
    \/ OptionUnwrap /\ UNCHANGED <<scannerVars, driverVars, listVars, lexerVars, replVars, codegenVars>>
    \/ ResultMap /\ UNCHANGED <<scannerVars, driverVars, listVars, lexerVars, replVars, codegenVars>>
    \/ ResultAndThen /\ UNCHANGED <<scannerVars, driverVars, listVars, lexerVars, replVars, codegenVars>>
    \/ ResultUnwrapOr /\ UNCHANGED <<scannerVars, driverVars, listVars, lexerVars, replVars, codegenVars>>

SpecRuntime == InitRuntime /\ [][NextRuntime]_vars

NextLists ==
    \/ ListNew /\ UNCHANGED <<scannerVars, driverVars, runtimeVars, lexerVars, replVars, codegenVars>>
    \/ ListWithCapacity /\ UNCHANGED <<scannerVars, driverVars, runtimeVars, lexerVars, replVars, codegenVars>>
    \/ ListPush /\ UNCHANGED <<scannerVars, driverVars, runtimeVars, lexerVars, replVars, codegenVars>>
    \/ ListMap /\ UNCHANGED <<scannerVars, driverVars, runtimeVars, lexerVars, replVars, codegenVars>>
    \/ ListGet /\ UNCHANGED <<scannerVars, driverVars, runtimeVars, lexerVars, replVars, codegenVars>>

SpecLists == Init /\ [][NextLists]_vars

NextLexer ==
    \/ LexerNew /\ UNCHANGED <<scannerVars, driverVars, runtimeVars, listVars, replVars, codegenVars>>
    \/ LexerNext /\ UNCHANGED <<scannerVars, driverVars, runtimeVars, listVars, replVars, codegenVars>>
    \/ LexerPeek /\ UNCHANGED <<scannerVars, driverVars, runtimeVars, listVars, replVars, codegenVars>>
    \/ LexerSave /\ UNCHANGED <<scannerVars, driverVars, runtimeVars, listVars, replVars, codegenVars>>
    \/ LexerRestore /\ UNCHANGED <<scannerVars, driverVars, runtimeVars, listVars, replVars, codegenVars>>

SpecLexer == Init /\ [][NextLexer]_vars

NextRepl ==
    \/ ReplRunLine /\ UNCHANGED <<scannerVars, driverVars, runtimeVars, listVars, lexerVars, codegenVars>>
    \/ ReplRunEof /\ UNCHANGED <<scannerVars, driverVars, runtimeVars, listVars, lexerVars, codegenVars>>
    \/ ReplRunQuit /\ UNCHANGED <<scannerVars, driverVars, runtimeVars, listVars, lexerVars, codegenVars>>

SpecRepl == Init /\ [][NextRepl]_vars

NextCodegen ==
    \/ CodegenExpr /\ UNCHANGED <<scannerVars, driverVars, runtimeVars, listVars, lexerVars, replVars>>
    \/ CodegenStmt /\ UNCHANGED <<scannerVars, driverVars, runtimeVars, listVars, lexerVars, replVars>>
    \/ CodegenProgram /\ UNCHANGED <<scannerVars, driverVars, runtimeVars, listVars, lexerVars, replVars>>

SpecCodegen == Init /\ [][NextCodegen]_vars

(***************************************************************************)
(* Vocabulary of the layout claims.                                        *)
(***************************************************************************)
\* the step is a call of the scan function; the symbols valid in the call
\* are valid_symbols'
ScanCall == Scan(valid_symbols')

\* the live part of the indent stack, bottom first
Stack == SubSeq(indent_stack, 1, indent_stack_size)

TopWidth == indent_stack[indent_stack_size]

Entries == {indent_stack[i] : i \in 1..indent_stack_size}

\* the entry the last decrement of indent_stack_size has left behind
LastPopped == indent_stack[indent_stack_size + 1]

OnlyWs(c) == \A i \in 1..Len(c) : c[i] \in {"s", "t"}

\* the white space at the head of r
LeadWs(r) ==
    LET stops == {i \in 1..Len(r) : r[i] \notin {"s", "t"}}
        n == IF stops = {} THEN Len(r)
             ELSE (CHOOSE i \in stops : \A j \in stops : i <= j) - 1
    IN SubSeq(r, 1, n)

\* spaces plus four times tabs
WidthOf(ws) ==
    Cardinality({i \in 1..Len(ws) : ws[i] = "s"})
    + 4 * Cardinality({i \in 1..Len(ws) : ws[i] = "t"})

\* first character after the white space at the head of r
FirstAfterWs(r) ==
    IF Len(LeadWs(r)) = Len(r) THEN "eof" ELSE r[Len(LeadWs(r)) + 1]

\* the lexer stands in the leading white space of the current line
InLeadingWs == OnlyWs(consumed)
\* the lexer stands at the very start of the current line
AtLineStart == consumed = <<>>
\* leading-whitespace width of the current line
LineWidth == WidthOf(consumed \o LeadWs(rest))

StatementLine == InLeadingWs /\ FirstAfterWs(rest) = "x"
CommentLine == InLeadingWs /\ FirstAfterWs(rest) = "h"
BlankLine == InLeadingWs /\ FirstAfterWs(rest) \in {"n", "r"}

\* the scan is one of the repeated calls made for the line: the first one,
\* at the start of the line, or one that follows a DEDENT which popped an
\* entry greater than the width of the line
DedentCallForLine ==
    /\ StatementLine
    /\ \/ AtLineStart
       \/ /\ result_symbol = "DEDENT" /\ LeadWs(rest) = <<>>
          /\ LastPopped > LineWidth

(***************************************************************************)
(* C1 -- dedent: the repeated scan calls made for a statement line of      *)
(* width w pop exactly the stack entries greater than w, one DEDENT per    *)
(* call, and stop popping as soon as the top of the stack is <= w.         *)
(***************************************************************************)
C1_DedentPopsExactlyEntriesAboveWidth ==
    [][("DEDENT" \in valid_symbols' /\ DedentCallForLine /\ ScanCall) =>
            IF TopWidth > LineWidth
            THEN /\ result_symbol' = "DEDENT"
                 /\ Stack' = SubSeq(Stack, 1, Len(Stack) - 1)
            ELSE /\ result_symbol' # "DEDENT"
                 /\ indent_stack_size' >= indent_stack_size]_vars

(***************************************************************************)
(* C2 -- indent: a scan at the start of a statement line whose width w is  *)
(* greater than the top of the stack, with INDENT valid, pushes w and      *)
(* emits INDENT whatever the other valid symbols are.                      *)
(***************************************************************************)
C2_IndentPushesForEveryValidSet ==
    [][("INDENT" \in valid_symbols' /\ AtLineStart /\ StatementLine
          /\ LineWidth > TopWidth
          /\ indent_stack_size < MAX_INDENT_STACK /\ ScanCall) =>
            /\ result_symbol' = "INDENT"
            /\ Stack' = Append(Stack, LineWidth)]_vars

(***************************************************************************)
(* C3 -- end of input: with DEDENT valid and a stack of depth > 1 each     *)
(* scan call emits one DEDENT and pops one entry, staying at the end of    *)
(* the input; with the stack [0] no DEDENT is emitted.                     *)
(***************************************************************************)
AtEndOfInput == closed /\ OnlyWs(rest)

C3_EofDedentsDownToBase ==
    [][(AtEndOfInput /\ ScanCall) =>
            /\ ("DEDENT" \in valid_symbols' /\ indent_stack_size > 1) =>
                  /\ result_symbol' = "DEDENT"
                  /\ Stack' = SubSeq(Stack, 1, Len(Stack) - 1)
                  /\ rest' = <<>>
            /\ indent_stack_size = 1 => result_symbol' # "DEDENT"]_vars

\* the last DEDENT at the end of the input has brought the stack to [0]
C3_Witness ==
    /\ closed /\ rest = <<>> /\ nfed >= 2
    /\ result_symbol = "DEDENT"
    /\ Stack = <<0>>

AtTerminatorBetweenStatements ==
    /\ rest # <<>> /\ Head(rest) = "n"
    /\ \E i \in 1..Len(consumed) : consumed[i] = "x"
    /\ WidthOf(LeadWs(consumed)) = TopWidth
    /\ WidthOf(LeadWs(Tail(rest))) = TopWidth
    /\ FirstAfterWs(Tail(rest)) = "x"

C5_NewlineBetweenStatements ==
    [][("NEWLINE" \in valid_symbols' /\ AtTerminatorBetweenStatements
          /\ ScanCall) =>
            /\ result_symbol' = "NEWLINE"
            /\ Stack' = Stack
            /\ rest' = Tail(rest)]_vars

(***************************************************************************)
(* C6 -- a dedent to a width that equals no entry of the stack is not      *)
(* accepted as a DEDENT.                                                   *)
(***************************************************************************)
C6_MismatchedDedentIsRejected ==
    [][("DEDENT" \in valid_symbols' /\ AtLineStart /\ StatementLine
          /\ LineWidth < TopWidth
          /\ LineWidth \notin Entries /\ ScanCall) =>
            result_symbol' # "DEDENT"]_vars

(***************************************************************************)
(* C7 -- deserializing what serialize has just written restores the same   *)
(* indent stack, for every depth the scanner can reach.                    *)
(***************************************************************************)
C7_SerializeRoundTrip ==
    [][(saved /\ ~saved') =>
          /\ indent_stack_size' = indent_stack_size
          /\ Stack' = Stack]_vars

(***************************************************************************)
(* C8 -- the indent stack always holds between 1 and 256 entries and no    *)
(* slot beyond indent_stack[255] is written; a scan made when the stack    *)
(* holds 256 entries does not push and does not emit INDENT.               *)
(***************************************************************************)
C8_StackDepthBounded ==
    /\ [](/\ indent_stack_size \in 1..256
          /\ Len(indent_stack) <= 256)
    /\ [][(indent_stack_size = 256 /\ ScanCall) =>
               /\ result_symbol' # "INDENT"
               /\ indent_stack_size' <= 256
               /\ indent_stack' = indent_stack]_vars

\* a scan with INDENT valid has returned false at the start of a deeper
\* statement line because the stack holds 256 entries
C8_Witness ==
    /\ indent_stack_size = 256
    /\ AtLineStart /\ StatementLine
    /\ LineWidth > TopWidth
    /\ "INDENT" \in valid_symbols
    /\ result_symbol = "NONE"

(***************************************************************************)
(* C9 -- a fresh scanner and a scanner deserialized from an empty buffer   *)
(* have the stack [0]; the width count_indent computes for the white space *)
(* at the lexer position is its number of spaces plus 4 times its number   *)
(* of tabs, and that is the width an INDENT at the start of a statement    *)
(* line pushes.                                                            *)
(***************************************************************************)
C9_InitialStackAndTabWidth ==
    /\ (indent_stack_size = 1 /\ Stack = <<0>>)
    /\ [][DeserializeEmpty => (indent_stack_size' = 1 /\ Stack' = <<0>>)]_vars
    /\ [](count_indent([consumed |-> <<>>, rest |-> rest]).indent
            = WidthOf(LeadWs(rest)))
    /\ [][(AtLineStart /\ StatementLine /\ result_symbol' = "INDENT"
             /\ ScanCall) =>
               TopWidth' = WidthOf(LeadWs(rest))]_vars

\* an INDENT for a line that starts with a space and a tab has pushed 5
C9_Witness ==
    /\ result_symbol = "INDENT"
    /\ consumed = <<"s", "t">>
    /\ Stack = <<0, 5>>

(***************************************************************************)
(* C10 -- in compile_to_qbe the emitter runs only after the parser has     *)
(* reported no error and the checker has returned success with no error    *)
(* recorded; after a parse error or a type error compile_to_qbe returns    *)
(* NULL and the emitter has not run.                                       *)
(***************************************************************************)
C10_EmitterOnlyAfterCleanCheck ==
    /\ emitter_calls > 0 =>
          /\ parser_calls > 0 /\ ~parse_error
          /\ checker_calls > 0 /\ check_ok /\ ~checker_errors
    /\ (command \in {"build", "emit"}
          /\ \/ parser_calls > 0 /\ parse_error
             \/ checker_calls > 0 /\ (~check_ok \/ checker_errors)) =>
          /\ emitter_calls = 0
          /\ cg = "NULL"

\* the emitter has run for a program that parsed and checked cleanly
C10_Witness ==
    /\ emitter_calls = 1
    /\ cg = "cg"
    /\ parser_calls = 1 /\ ~parse_error
    /\ checker_calls = 1 /\ check_ok /\ ~checker_errors

(***************************************************************************)
(* Vocabulary of the driver claims.                                        *)
(***************************************************************************)
\* a line with this text has been printed
Printed(text) == \E i \in DOMAIN output : output[i].text = text

\* main has returned
Exited == pc = "exit"

(***************************************************************************)
(* C11 -- for an empty program (the parser reports no error and returns    *)
(* zero statements) the commands emit and build succeed: the emitter runs  *)
(* (it produces the preamble) and, when nothing else fails, the process    *)
(* returns 0.                                                              *)
(***************************************************************************)
C11_EmptyProgramSucceeds ==
    (/\ Exited
     /\ command \in {"build", "emit"}
     /\ parser_calls = 1 /\ ~parse_error /\ stmts_len = 0
     /\ failures = {}) =>
        /\ emitter_calls = 1
        /\ exit_code = 0

(***************************************************************************)
(* C12 -- when main has returned, its value is 0 exactly when the command  *)
(* has completed every step, and it is not 0 in every error case: fewer    *)
(* than two arguments, an unknown command, an unreadable source file, a    *)
(* parse error, a type error, a failure to write the IR file, a failure of *)
(* qbe, of the assembler or of the linker.                                 *)
(***************************************************************************)
ErrorCase ==
    \/ argc < 3
    \/ command \notin {"build", "check", "emit"}
    \/ failures # {}

\* the last step of the command has been done and nothing has failed
CompletedEveryStep ==
    /\ argc >= 3
    /\ failures = {}
    /\ \/ command = "build" /\ Len(steps) >= 4 /\ steps[4].tool = "cc"
       \/ command = "check" /\ checker_calls = 1
       \/ command = "emit" /\ emitter_calls = 1 /\ Printed("IR")

C12_ExitCodeZeroIffSuccess ==
    Exited =>
        /\ exit_code = 0 <=> CompletedEveryStep
        /\ ErrorCase => exit_code # 0

\* a build whose link step has failed has returned 1
C12_Witness ==
    /\ Exited
    /\ failures = {"link_failed"}
    /\ exit_code = 1

(***************************************************************************)
(* C13 -- `fern build -o <output> <source>' with a readable, well-typed    *)
(* source and working tools returns 0, prints "Created executable:" and    *)
(* leaves the executable at <output>.                                      *)
(***************************************************************************)
BuildWithOutputOption ==
    /\ command = "build"
    /\ Len(args) = 3
    /\ args[1] = DashO

C13_BuildWithOutputOption ==
    (/\ Exited
     /\ BuildWithOutputOption
     /\ args[3] \in readable
     /\ failures \subseteq {"no_such_file"}) =>
        /\ exit_code = 0
        /\ Printed("Created executable")
        /\ args[2] \in files

(***************************************************************************)
(* C14 -- `fern check <file>' prints "<file>: No type errors" and returns  *)
(* 0 if and only if the file was read, the parser reported no error and    *)
(* the checker returned success with no error recorded; it never runs the  *)
(* emitter or an external tool and writes no file.                         *)
(***************************************************************************)
CheckedClean ==
    /\ source = "text"
    /\ parser_calls = 1 /\ ~parse_error
    /\ checker_calls = 1 /\ check_ok /\ ~checker_errors

C14_CheckCommand ==
    command = "check" =>
        /\ Exited =>
              /\ (\E i \in DOMAIN output :
                     output[i] = msg("No type errors", filename))
                    <=> CheckedClean
              /\ exit_code = 0 <=> CheckedClean
        /\ emitter_calls = 0
        /\ steps = <<>>
        /\ files = {}

\* a check of a clean file has printed the line and returned 0
C14_Witness ==
    /\ Exited
    /\ command = "check"
    /\ CheckedClean
    /\ Printed("No type errors")
    /\ exit_code = 0

(***************************************************************************)
(* C15 -- a run of main that has created the arena destroys it exactly     *)
(* once, and does so before it returns, on every path.                     *)
(***************************************************************************)
C15_ArenaDestroyedExactlyOnce ==
    /\ arena_destroys <= 1
    /\ arena = "live" => ~Exited /\ arena_destroys = 0
    /\ (Exited /\ arena # "none") =>
          /\ arena = "destroyed"
          /\ arena_destroys = 1

\* the arena has been destroyed on the path of a failed qbe step
C15_Witness ==
    /\ Exited
    /\ failures = {"qbe_failed"}
    /\ arena = "destroyed"
    /\ arena_destroys = 1

(***************************************************************************)
(* C16 -- a handle read_file has opened is open while read_file runs and   *)
(* has been closed exactly once when read_file has returned, on each of    *)
(* its return paths.                                                       *)
(***************************************************************************)
InReadFile == pc \in {"read_size", "read_alloc", "read_fread"}

C16_HandleClosedExactlyOnce ==
    /\ fopens <= 1
    /\ InReadFile => fopens = 1 /\ fcloses = 0
    /\ ~InReadFile => fcloses = fopens

\* read_file has returned NULL after a failure that follows fopen
C16_Witness ==
    /\ ~InReadFile
    /\ failures = {"read_error"}
    /\ fopens = 1
    /\ fcloses = 1

(***************************************************************************)
(* C17 -- build runs write IR, qbe, assemble, link in this order; the link *)
(* step links against the runtime; the executable is named after the       *)
(* source with its directory and last extension removed; a step runs only  *)
(* if the earlier ones succeeded, and after the first failing step no      *)
(* later step runs and the command returns non-zero.                       *)
(***************************************************************************)
BuildOrder == <<"write_ir", "qbe", "cc -c", "cc">>

\* the runtime library the link step is to be given
RuntimeLib == <<"r", "u", "n", "t", "i", "m", "e">>

\* name without its directory
WithoutDirectory(name) ==
    LET tails == {k \in 0..Len(name) :
                     \A i \in (Len(name) - k + 1)..Len(name) :
                        name[i] \notin {"/", "\\"}}
        k == CHOOSE n \in tails : \A m \in tails : m <= n
    IN SubSeq(name, Len(name) - k + 1, Len(name))

\* name without its last extension
WithoutExtension(name) ==
    IF \A i \in DOMAIN name : name[i] # "."
    THEN name
    ELSE LET heads == {k \in 0..(Len(name) - 1) : name[k + 1] = "."}
             k == CHOOSE n \in heads : \A m \in heads : m <= n
         IN SubSeq(name, 1, k)

\* the steps of the build that run a tool
ToolSteps == SelectSeq(steps, LAMBDA s : s.tool # "unlink")

\* the number of tool steps after which the failure leaves the build
StepsUpTo(why) ==
    CASE why = "write_failed" -> 0
      [] why = "qbe_failed" -> 2
      [] why = "assemble_failed" -> 3
      [] why = "link_failed" -> 4

C17_BuildStepsInOrder ==
    command = "build" =>
        /\ Len(ToolSteps) <= 4
        /\ \A i \in DOMAIN ToolSteps : ToolSteps[i].tool = BuildOrder[i]
        /\ \A i \in DOMAIN ToolSteps :
              ToolSteps[i].tool = "cc" =>
                 /\ ToolSteps[i].out
                       = WithoutExtension(WithoutDirectory(filename))
                 /\ RuntimeLib \in ToolSteps[i].ins
        /\ \A why \in failures \cap {"write_failed", "qbe_failed",
                                     "assemble_failed", "link_failed"} :
              /\ Len(steps) = StepsUpTo(why)
              /\ Exited => exit_code # 0

(***************************************************************************)
(* Vocabulary of the runtime claims.                                       *)
(***************************************************************************)
\* the 64-bit words of the numbers 0 and 1
Zero64 == [hi |-> 0, lo |-> 0]

One64 == [hi |-> 0, lo |-> 1]

\* the low 32 bits of a word, as a bit pattern
Low32(w) == w.lo

\* the word whose value is that of the low 32 bits of w read as a signed
\* 32-bit number
SignExtensionOfLow32(w) == [hi |-> IF w.lo < 0 THEN -1 ELSE 0, lo |-> w.lo]

\* the value of w lies in -2^31 .. 2^31 - 1
InInt32Range(w) ==
    \/ w.hi = 0 /\ w.lo >= 0
    \/ w.hi = -1 /\ w.lo < 0

(***************************************************************************)
(* C18 -- the low 32 bits of fern_result_ok(v) are 0, of fern_result_err(v)*)
(* 1, of fern_option_none() 0 and of fern_option_some(v) 1, for every      *)
(* payload v; fern_result_is_ok returns 1 for an Ok word and 0 for an Err  *)
(* word, fern_option_is_some 1 for a Some word and 0 for the None word.    *)
(***************************************************************************)
C18_TagEncoding ==
    /\ rt_made = "ok" => Low32(rt_word) = 0
    /\ rt_made = "err" => Low32(rt_word) = 1
    /\ rt_made = "none" => Low32(rt_word) = 0
    /\ rt_made = "some" => Low32(rt_word) = 1
    /\ rt_call = "fern_result_is_ok" =>
          rt_ret = IF rt_made = "ok" THEN One64 ELSE Zero64
    /\ rt_call = "fern_option_is_some" =>
          rt_ret = IF rt_made = "some" THEN One64 ELSE Zero64

\* fern_result_is_ok has returned 0 for the Err word of the payload -1
C18_Witness ==
    /\ rt_value = [hi |-> -1, lo |-> -1]
    /\ rt_made = "err"
    /\ rt_call = "fern_result_is_ok"
    /\ rt_ret = Zero64

(***************************************************************************)
(* C19 -- for every 64-bit payload v, fern_result_unwrap of                *)
(* fern_result_ok(v) and of fern_result_err(v), and fern_option_unwrap of  *)
(* fern_option_some(v), return the sign extension of the low 32 bits of v; *)
(* they return v itself exactly when v lies in the signed 32-bit range.    *)
(***************************************************************************)
C19_PayloadRoundTrip ==
    (\/ rt_call = "fern_result_unwrap"
     \/ rt_call = "fern_option_unwrap" /\ rt_made = "some") =>
        /\ rt_ret = SignExtensionOfLow32(rt_value)
        /\ rt_ret = rt_value <=> InInt32Range(rt_value)

\* the payload 2^32 - 2 has come back from an Err word as -2
C19_Witness ==
    /\ rt_value = [hi |-> 0, lo |-> -2]
    /\ rt_made = "err"
    /\ rt_call = "fern_result_unwrap"
    /\ rt_ret = [hi |-> -1, lo |-> -2]

(***************************************************************************)
(* C20 -- fern_result_map and fern_result_and_then return an Err word as   *)
(* it is and do not call fn; for an Ok word they call fn once, with the    *)
(* unwrapped payload, map returning fern_result_ok of the value of fn and  *)
(* and_then the value of fn itself; fern_result_unwrap_or returns the      *)
(* payload of an Ok word and the default for an Err word.                  *)
(***************************************************************************)
Payload == SignExtensionOfLow32(rt_value)

C20_MapAndThenUnwrapOr ==
    /\ (rt_call \in {"fern_result_map", "fern_result_and_then"}
          /\ rt_made = "err") =>
             /\ rt_ret = rt_word
             /\ fn_args = <<>>
    /\ (rt_call = "fern_result_map" /\ rt_made = "ok") =>
          /\ fn_args = <<Payload>>
          /\ rt_ret = fern_result_ok(apply(rt_fn, Payload))
    /\ (rt_call = "fern_result_and_then" /\ rt_made = "ok") =>
          /\ fn_args = <<Payload>>
          /\ rt_ret = apply(rt_fn, Payload)
    /\ rt_call = "fern_result_unwrap_or" =>
          rt_ret = IF rt_made = "ok" THEN Payload ELSE rt_default

\* and_then on the Ok word of -1 has called fn once and returned its Err word
C20_Witness ==
    /\ rt_value = [hi |-> -1, lo |-> -1]
    /\ rt_made = "ok"
    /\ rt_call = "fern_result_and_then"
    /\ rt_fn = "to_err"
    /\ fn_args = <<[hi |-> -1, lo |-> -1]>>
    /\ rt_ret = [hi |-> -1, lo |-> 1]

(***************************************************************************)
(* C27 -- the entries of the indent stack are 16-bit unsigned values, the  *)
(* bottom entry is 0 and the entries increase strictly from the bottom to  *)
(* the top, in every state the scanner reaches.                            *)
(***************************************************************************)
C27_StackStrictlyIncreasing ==
    /\ indent_stack[1] = 0
    /\ \A i \in 1..indent_stack_size : indent_stack[i] \in 0..(UINT16 - 1)
    /\ \A i \in 1..(indent_stack_size - 1) :
          indent_stack[i] < indent_stack[i + 1]

\* two blocks are open, the inner one behind a space and a tab
C27_Witness ==
    /\ indent_stack_size = 3
    /\ SubSeq(indent_stack, 1, 3) = <<0, 1, 5>>
    /\ result_symbol = "INDENT"

(***************************************************************************)
(* C28 -- a scan call that emits INDENT pushes exactly one entry, one that *)
(* emits DEDENT pops exactly one entry, one that emits NEWLINE or returns  *)
(* false leaves the indent stack as it was.                                *)
(***************************************************************************)
C28_OneTokenOneStackStep ==
    [][ScanCall =>
          LET before == SubSeq(indent_stack, 1, indent_stack_size)
              after == SubSeq(indent_stack', 1, indent_stack_size')
          IN CASE result_symbol' = "INDENT" ->
                    /\ Len(after) = Len(before) + 1
                    /\ SubSeq(after, 1, Len(before)) = before
               [] result_symbol' = "DEDENT" ->
                    /\ Len(after) = Len(before) - 1
                    /\ after = SubSeq(before, 1, Len(before) - 1)
               [] OTHER -> after = before]_vars

\* a DEDENT has taken the stack from three entries to two
C28_Witness ==
    /\ result_symbol = "DEDENT"
    /\ indent_stack_size = 2
    /\ Len(indent_stack) = 3

(***************************************************************************)
(* C29 -- a scan call emits DEDENT only when it starts at the start of a   *)
(* line or at the end of the input: the width it has compared with the top *)
(* of the stack is the full leading-whitespace width of the current line.  *)
(***************************************************************************)
C29_DedentOnlyAtLineStart ==
    [][(ScanCall /\ result_symbol' = "DEDENT") =>
          \/ AtEndOfInput
          \/ /\ AtLineStart
             /\ WidthOf(LeadWs(rest)) = LineWidth]_vars

(***************************************************************************)
(* C21 -- fern_list_push and fern_list_map leave the argument list (its    *)
(* len, its cap and every element) and every other list as they were and   *)
(* return a list that did not exist before; the pushed list has one more   *)
(* element, the old elements in their places and the value at the end; the *)
(* mapped list has the same len and fn of each element in the same order.  *)
(***************************************************************************)
C21_ListsAreImmutable ==
    [][(ListPush \/ ListMap) =>
          LET list == list_call'.list
              new == list_call'.ret
              len == heap[list].len
          IN /\ \A l \in DOMAIN heap : heap'[l] = heap[l]
             /\ new # list
             /\ new \notin DOMAIN heap
             /\ list_call'.op = "fern_list_push" =>
                   /\ heap'[new].len = len + 1
                   /\ \A i \in 1..len :
                         heap'[new].data[i] = heap[list].data[i]
                   /\ heap'[new].data[len + 1] = list_call'.arg
             /\ list_call'.op = "fern_list_map" =>
                   /\ heap'[new].len = len
                   /\ \A i \in 1..len :
                         heap'[new].data[i]
                            = list_fn(list_call'.fn, heap[list].data[i])]_vars

\* a list holding 2 has been mapped with the negation into a third list
C21_Witness ==
    /\ list_call.op = "fern_list_map"
    /\ list_call.fn = "neg"
    /\ list_call.list = 2 /\ list_call.ret = 3
    /\ heap[1].len = 0
    /\ heap[2].data = <<2>>
    /\ heap[3].data = <<-2>>

(***************************************************************************)
(* C30 -- every list has cap > 0 and 0 <= len <= cap and no slot at an     *)
(* index >= cap has been written; fern_list_get aborts for an index        *)
(* outside 0..len-1 and returns the element otherwise.                     *)
(***************************************************************************)
C30_ListBounds ==
    /\ \A l \in DOMAIN heap :
          /\ heap[l].cap > 0
          /\ 0 <= heap[l].len /\ heap[l].len <= heap[l].cap
          /\ Len(heap[l].data) <= heap[l].cap
    /\ list_call.op = "fern_list_get" =>
          LET list == heap[list_call.list]
              index == list_call.arg
          IN IF index \in 0..(list.len - 1)
             THEN ~aborted /\ list_call.ret = list.data[index + 1]
             ELSE aborted

\* fern_list_get has aborted for the index len of a list that is full
C30_Witness ==
    /\ list_call.op = "fern_list_get"
    /\ heap[list_call.list].len = 2
    /\ heap[list_call.list].cap = 2
    /\ list_call.arg = 2
    /\ aborted

(***************************************************************************)
(* Vocabulary of the lexer claim.                                          *)
(***************************************************************************)
\* the tokens lexer_next returns from lex on, up to and including EOF
RECURSIVE token_stream(_)
token_stream(lex) ==
    LET n == lexer_next(lex)
    IN IF n.tok.kind = "EOF" THEN <<n.tok>>
       ELSE <<n.tok>> \o token_stream(n.lex)

(***************************************************************************)
(* C22 -- after lexer_restore(s) the tokens the lexer returns (kinds,      *)
(* lines and columns, layout tokens included) are those it would have      *)
(* returned from the moment of s = lexer_save() on, whatever lexer_next    *)
(* and lexer_peek calls were made in between; the snapshot holds the       *)
(* position, the line and the column and nothing else.                     *)
(***************************************************************************)
C22_RestoreReplaysTokens ==
    /\ snapshot # <<>> => DOMAIN snapshot[1] = {"current", "line", "column"}
    /\ lexer_call.op = "lexer_restore" =>
          token_stream(lexer) = token_stream(lexer_at_save[1])

(***************************************************************************)
(* C23 -- when repl_run has returned, repl_should_exit returns true,       *)
(* whether the loop ended by :quit / :q or by the line reader returning    *)
(* NULL at EOF.                                                            *)
(***************************************************************************)
C23_ShouldExitAfterEnd == repl_pc = "ended" => repl_should_exit

(***************************************************************************)
(* C25 -- repl_eval_line takes exactly the path its line selects: with the *)
(* leading blanks and tabs skipped, the empty line returns true and        *)
(* nothing is parsed or checked; a line that starts with ':' goes to the   *)
(* command handler and is never handed to the parser; a line that starts   *)
(* with "let ", "fn ", "pub ", "type " or "import " is parsed as a         *)
(* statement; every other line is parsed as an expression.                 *)
(***************************************************************************)
C25_OnePathPerLine ==
    repl_call.op = "repl_eval_line" =>
       LET text == skip_chars(repl_call.line, {" ", "\t"})
           made == repl_call.made
           HasPrefix(p) ==
               /\ Len(text) >= Len(p)
               /\ \A i \in 1..Len(p) : text[i] = p[i]
           keyword ==
               \/ HasPrefix(<<"l", "e", "t", " ">>)
               \/ HasPrefix(<<"f", "n", " ">>)
               \/ HasPrefix(<<"p", "u", "b", " ">>)
               \/ HasPrefix(<<"t", "y", "p", "e", " ">>)
               \/ HasPrefix(<<"i", "m", "p", "o", "r", "t", " ">>)
       IN /\ made.path = IF text = <<>> THEN "empty"
                         ELSE IF text[1] = ":" THEN "command"
                         ELSE IF keyword THEN "statement"
                         ELSE "expression"
          /\ made.path = "empty" =>
                made.ret /\ made.parsed = <<>> /\ made.checked = 0
          /\ made.path = "command" => made.parsed # <<text>>
          /\ made.path \in {"statement", "expression"} =>
                made.parsed = <<text>>

\* the line "letx" has gone to the expression path
C25_Witness ==
    /\ repl_call.op = "repl_eval_line"
    /\ repl_call.line = <<"l", "e", "t", "x">>
    /\ repl_call.made.path = "expression"
    /\ repl_call.made.parsed = <<<<"l", "e", "t", "x">>>>

(***************************************************************************)
(* C26 -- a line that parses and is well typed (expression, statement or   *)
(* the argument of :type) is reported as a success whatever errors the     *)
(* lines before it have left in the checker, and after a line the          *)
(* checker's error list holds the errors of that line only.                *)
(***************************************************************************)
C26_ErrorsEndWithTheirLine ==
    repl_call.op = "repl_eval_line" =>
       LET made == repl_call.made
       IN /\ (made.checked = 1 /\ repl_call.typed) => made.ret
          /\ made.errors = IF made.checked = 1 /\ ~repl_call.typed
                           THEN 1 ELSE 0

\* a well-typed statement has succeeded right after a line with a type error
C26_Witness ==
    /\ repl_call.op = "repl_eval_line"
    /\ repl_call.before = 1
    /\ repl_call.made.path = "statement"
    /\ repl_call.made.checked = 1
    /\ repl_call.typed
    /\ repl_call.made.ret

(***************************************************************************)
(* C24 -- in one emitter the temporaries defined are %t0, %t1, ... and the *)
(* labels emitted are @L0, @L1, ..., each number below its counter used    *)
(* exactly once over all codegen_expr, codegen_stmt and codegen_program    *)
(* calls: no temporary is defined twice, no label is emitted twice, and    *)
(* the then, else and join labels of an if-expression are three different  *)
(* labels.                                                                 *)
(***************************************************************************)
C24_FreshTemporariesAndLabels ==
    LET out == emitter.out
        at(op) == {i \in 1..Len(out) : out[i].op = op}
    IN /\ \A i, j \in at("def") : out[i].n = out[j].n => i = j
       /\ {out[i].n : i \in at("def")} = 0..(emitter.temp - 1)
       /\ \A i, j \in at("label") : out[i].n = out[j].n => i = j
       /\ {out[i].n : i \in at("label")} = 0..(emitter.label - 1)
       /\ \A i, j \in at("def") : i < j => out[i].n < out[j].n
       /\ \A i \in at("jnz") :
             /\ out[i].a # out[i].b
             /\ out[i].a # out[i].c
             /\ out[i].b # out[i].c

\* two calls have emitted an if-expression each: six labels, @L0 to @L5
C24_Witness ==
    /\ emit_call.calls = 2
    /\ emitter.label = 6
    /\ Cardinality({i \in 1..Len(emitter.out) :
                      emitter.out[i].op = "jnz"}) = 2
    /\ \E i \in 1..Len(emitter.out) :
          emitter.out[i] = [op |-> "label", n |-> 5, a |-> 0, b |-> 0,
                            c |-> 0]

====
